---- MODULE Spec2Model ----
(***************************************************************************)
(* Rate-limited batch ingestion engine of aum-tracker (SolanaService):     *)
(* the fetch queue (addToQueue / processQueue), the retry executor         *)
(* (withRetry) and the batch orchestrator (processWalletBatch driving      *)
(* getWalletData pipelines against the cache store).                       *)
(*                                                                         *)
(* JavaScript runs the service on one thread: every action below is one    *)
(* run-to-completion step, from the event that wakes a coroutine up to its *)
(* next await.                                                             *)
(***************************************************************************)
EXTENDS Integers, Sequences, FiniteSets, TLC

\* ------------------------------------------------------------------ bounds
MaxOps == 4          \* submissions to the fetch queue in the queue specification
MaxRetryArg == 4     \* largest maxRetries argument tried in the retry specification

\* ------------------------------------------------------- program constants
rateLimitDelay == 100
maxRetries == 3
defaultBaseDelay == 1000

\* ------------------------------------------------------------------- state
VARIABLES
  requestQueue,       \* this.requestQueue: ids of the queued wrappers, head first
  isProcessingQueue,  \* this.isProcessingQueue
  loops,              \* activations of processQueue that are suspended at an await
  ops,                \* every operation ever handed to addToQueue, by id
  promise,            \* the promise addToQueue returned for each operation
  pacingDelays,       \* number of rateLimitDelay timers processQueue has waited
  retry,              \* one activation of withRetry
  wallets,            \* argument of processWalletBatch: sequence of {id, address}
  batchSize,          \* argument of processWalletBatch
  orch,               \* the activation of processWalletBatch: pc, i, chunks
  results,            \* its local `results`: successful, failed, errors
  pl,                 \* the getWalletData pipelines dispatched so far
  prov,               \* what the upstream providers answer (fixed once asked)
  walletDb,           \* cache store: wallet_balances rows
  priceDb,            \* cache store: token_prices rows
  fetchLog,           \* cache store: fetch_logs rows, oldest first
  rerun,              \* TRUE once processWalletBatch has been called a second time
  firstRun,           \* the cache as the first run of processWalletBatch left it
  fx,                 \* per queued fetch: its withRetry activation and its connection
  net,                \* the RPC requests that are in flight
  hc,                 \* the activation of healthCheck
  md,                 \* one activation of getTokenMetadata
  px,                 \* the calls of getSOLPrice and getTokenPrices made on their own
  api                 \* the API routes: requests served, pending refreshes, snapshots

qvars == <<requestQueue, isProcessingQueue, loops, ops, promise, pacingDelays>>
bvars == <<wallets, batchSize, orch, results, pl, prov, walletDb, priceDb, fetchLog, rerun, firstRun>>
fvars == <<fx, net, hc>>
vars == <<qvars, retry, bvars, fvars, md, px, api>>

\* --------------------------------------------------------------- fetch queue
Values == {"x", "y"}

Pending == [st |-> "pending", v |-> "-"]

\* the three variables the queue code reads and writes, as one value
QState == [queue |-> requestQueue, processing |-> isProcessingQueue,
           loops |-> loops, ops |-> ops]

newOp(kind, owner, val) ==
  [kind |-> kind, owner |-> owner, val |-> val, st |-> "queued", runs |-> 0, out |-> "-"]

\* requestQueue.shift() followed by operation(): the wrapper, and with it the
\* submitted operation, starts running and the loop suspends at `await operation()`
shiftAndRun(S) ==
  LET n == Head(S.queue) IN
  [S EXCEPT !.queue = Tail(S.queue),
            !.ops = [@ EXCEPT ![n].st = "running", ![n].runs = @ + 1],
            !.loops = @ \cup {[pc |-> "awaitOp", op |-> n]}]

\* variant: the loop forgets to raise isProcessingQueue
processQueue_flagNotSet(S) ==
  IF S.processing \/ Len(S.queue) = 0
    THEN S
    ELSE shiftAndRun(S)

\* processQueue(), from its call to its first await
processQueue(S) ==
  IF S.processing \/ Len(S.queue) = 0
    THEN S
    ELSE shiftAndRun([S EXCEPT !.processing = TRUE])

\* variant: the wrapper is put at the head of the queue (unshift for push)
addToQueue_unshift(S, n) ==
  LET S1 == [S EXCEPT !.queue = <<n>> \o @] IN
  IF ~S1.processing THEN processQueue(S1) ELSE S1

\* addToQueue(operation): push the wrapper, start the loop when none is running
addToQueue(S, n) ==
  LET S1 == [S EXCEPT !.queue = Append(@, n)] IN
  IF ~S1.processing THEN processQueue(S1) ELSE S1

\* the wrapper pushed by addToQueue: resolve(result) or reject(error)
wrapper(ok, val) ==
  IF ok THEN [st |-> "fulfilled", v |-> val] ELSE [st |-> "rejected", v |-> val]

\* variant: no try/catch around the operation, a failure ends the loop
afterOperation_diesOnError(S, l) ==
  IF S.ops[l.op].out = "err"
    THEN [S EXCEPT !.loops = @ \ {l}]
    ELSE IF Len(S.queue) > 0
      THEN [S EXCEPT !.loops = (@ \ {l}) \cup {[l EXCEPT !.pc = "delay"]}]
      ELSE [S EXCEPT !.loops = @ \ {l}, !.processing = FALSE]

\* the loop after `await operation()`: pace if more work is queued, else leave
\* the while loop and clear the flag
afterOperation(S, l) ==
  IF Len(S.queue) > 0
    THEN [S EXCEPT !.loops = (@ \ {l}) \cup {[l EXCEPT !.pc = "delay"]}]
    ELSE [S EXCEPT !.loops = @ \ {l}, !.processing = FALSE]

\* variant: after the pacing timer the loop leaves without testing the queue
afterDelay_leavesWork(S, l) ==
  [S EXCEPT !.loops = @ \ {l}, !.processing = FALSE]

\* the loop after the pacing timer: the while condition is evaluated again
afterDelay(S, l) ==
  LET S1 == [S EXCEPT !.loops = @ \ {l}] IN
  IF Len(S1.queue) > 0
    THEN shiftAndRun(S1)
    ELSE [S1 EXCEPT !.processing = FALSE]

\* the running operation settles: the wrapper returns and the loop that awaits
\* it becomes runnable
settleOp(S, n, ok) ==
  [S EXCEPT !.ops = [@ EXCEPT ![n].st = "settled", ![n].out = IF ok THEN "ok" ELSE "err"],
            !.loops = {IF l.op = n /\ l.pc = "awaitOp" THEN [l EXCEPT !.pc = "resume"] ELSE l
                        : l \in @}]

SetQ(S) ==
  /\ requestQueue' = S.queue
  /\ isProcessingQueue' = S.processing
  /\ loops' = S.loops
  /\ ops' = S.ops

Executing == {n \in 1..Len(ops) : ops[n].st = "running"}
Started == {n \in 1..Len(ops) : ops[n].st # "queued"}

\* ---- queue specification: arbitrary callers, arbitrary operations
NoRetry == [pc |-> "off", max |-> 0, base |-> 0, attempt |-> 0,
            invocations |-> 0, fails |-> 0, delays |-> <<>>,
            result |-> [st |-> "pending", v |-> "-", k |-> 0]]

QueueIdle ==
  /\ requestQueue = <<>>
  /\ isProcessingQueue = FALSE
  /\ loops = {}
  /\ ops = <<>>
  /\ promise = <<>>
  /\ pacingDelays = 0

\* no fetch has started, no request is in flight, healthCheck is not running
\* and the price resolver has not been called on its own; no API request yet
NoFetches ==
  /\ fx = <<>>
  /\ net = {}
  /\ hc = "off"
  /\ px = <<>>
  /\ api = [n |-> 0, last |-> "-", refresh |-> {}, snapshots |-> <<>>]

\* getTokenMetadata is not running
NoLookup == [pc |-> "off", mints |-> <<>>, bulk |-> "-", lookup |-> <<>>, i |-> 0,
             metadata |-> <<>>, lookups |-> 0]

NoProviders == [rpc |-> <<>>, catalog |-> "?", price |-> "?"]

NoBatch ==
  /\ wallets = <<>>
  /\ batchSize = 1
  /\ orch = [pc |-> "off", i |-> 0, chunks |-> 0, base |-> 0]
  /\ results = [successful |-> 0, failed |-> 0, errors |-> <<>>]
  /\ pl = <<>>
  /\ prov = NoProviders
  /\ walletDb = {}
  /\ priceDb = {}
  /\ fetchLog = <<>>
  /\ rerun = FALSE
  /\ firstRun = [wallets |-> {}, prices |-> {}]
  /\ NoFetches

InitQ ==
  /\ QueueIdle
  /\ retry = NoRetry
  /\ NoBatch
  /\ md = NoLookup

\* a caller calls addToQueue(operation)
Submit ==
  /\ Len(ops) < MaxOps
  /\ \E val \in Values :
       LET n == Len(ops) + 1
           S0 == [QState EXCEPT !.ops = Append(@, newOp("generic", 0, val))]
       IN /\ SetQ(addToQueue(S0, n))
          /\ promise' = Append(promise, Pending)
  /\ UNCHANGED <<api, px, md, fvars, pacingDelays, retry, bvars>>

\* the operation that is executing returns or throws
OpSettles ==
  /\ \E n \in Executing, ok \in BOOLEAN :
       /\ SetQ(settleOp(QState, n, ok))
       /\ promise' = [promise EXCEPT ![n] = wrapper(ok, ops[n].val)]
  /\ UNCHANGED <<api, px, md, fvars, pacingDelays, retry, bvars>>

\* processQueue resumes after `await operation()`
LoopResumes ==
  /\ \E l \in loops :
       /\ l.pc = "resume"
       /\ SetQ(afterOperation(QState, l))
  /\ UNCHANGED <<api, px, md, fvars, promise, pacingDelays, retry, bvars>>

\* the rateLimitDelay timer fires
DelayElapses ==
  /\ \E l \in loops :
       /\ l.pc = "delay"
       /\ SetQ(afterDelay(QState, l))
  /\ pacingDelays' = pacingDelays + 1
  /\ UNCHANGED <<api, px, md, fvars, promise, retry, bvars>>

NextQ == Submit \/ OpSettles \/ LoopResumes \/ DelayElapses

SpecQ == InitQ /\ [][NextQ]_vars

\* operations terminate, microtasks run and timers fire
LiveSpecQ == SpecQ /\ WF_vars(OpSettles) /\ WF_vars(LoopResumes) /\ WF_vars(DelayElapses)

\* ------------------------------------------------------ fetch queue: claims

\* C1: at most one submitted operation is executing at any time and at most
\* one processQueue loop is active, whatever the callers do.
C1_MutualExclusion ==
  /\ Cardinality(Executing) <= 1
  /\ Cardinality(loops) <= 1
  /\ (loops # {}) => isProcessingQueue

\* two more operations were submitted while one is executing
C1_Witness ==
  /\ Cardinality(Executing) = 1
  /\ Len(requestQueue) >= 2

\* C2: any two consecutively executed operations are separated by one full
\* rateLimitDelay: N started operations have incurred at least N-1 pacing delays.
C2_Pacing ==
  Cardinality(Started) >= 1 =>
    pacingDelays * rateLimitDelay >= (Cardinality(Started) - 1) * rateLimitDelay

\* C3: strict FIFO: when B was submitted after A, B does not start before A
\* has started and settled, whether A succeeds or fails.
C3_FIFO ==
  \A a, b \in 1..Len(ops) :
    (a < b /\ ops[b].st # "queued") => ops[a].st = "settled"

\* A failed, and B, submitted after it while A was still queued or running, runs
C3_Witness ==
  \E a, b \in 1..Len(ops) :
    /\ a < b
    /\ ops[a].out = "err"
    /\ ops[b].st = "running"
    /\ Len(requestQueue) >= 1

Outcome(n) ==
  [st |-> IF ops[n].out = "ok" THEN "fulfilled" ELSE "rejected", v |-> ops[n].val]

Drained == requestQueue = <<>> /\ Executing = {}

\* C4: provided every operation terminates, every submitted operation is
\* eventually executed exactly once and its submitter receives that operation's
\* own value or error; a failing operation does not stop the loop, and the loop
\* stops (isProcessingQueue = FALSE) once the queue is drained.
C4_LivenessIsolation ==
  /\ [](\A n \in 1..Len(ops) :
          /\ ops[n].runs <= 1
          /\ promise[n].st # "pending" => (ops[n].st = "settled" /\ promise[n] = Outcome(n)))
  /\ \A n \in 1..MaxOps :
       (Len(ops) >= n) ~> (/\ Len(ops) >= n
                           /\ ops[n].st = "settled"
                           /\ ops[n].runs = 1
                           /\ promise[n] = Outcome(n))
  /\ Drained ~> (~isProcessingQueue /\ loops = {})

\* an operation failed, a later one still delivered its value, and the loop stopped
C4_Witness ==
  /\ \E a, b \in 1..Len(ops) :
       /\ a < b
       /\ promise[a] = [st |-> "rejected", v |-> ops[a].val]
       /\ promise[b] = [st |-> "fulfilled", v |-> ops[b].val]
  /\ Drained
  /\ ~isProcessingQueue

\* C29: no stranded work: between steps, a non-empty requestQueue implies that
\* isProcessingQueue is set and that a consumer loop is suspended at an await
\* (and a cleared flag implies an empty queue); an operation enqueued while the
\* loop awaits the current operation or its pacing delay starts no second loop
\* and is left to the loop that is active.
C29_NoStrandedWork ==
  /\ [](/\ requestQueue # <<>> => isProcessingQueue
        /\ ~isProcessingQueue => requestQueue = <<>>
        /\ isProcessingQueue => Cardinality(loops) = 1)
  /\ [][(isProcessingQueue /\ Len(ops') > Len(ops)) =>
          (/\ loops' = loops
           /\ requestQueue' = Append(requestQueue, Len(ops'))
           /\ isProcessingQueue')]_vars

\* the loop is in its pacing delay and an operation was enqueued behind the
\* one it paces for
C29_Witness ==
  /\ \E l \in loops : l.pc = "delay"
  /\ Len(requestQueue) >= 2
  /\ \E n \in 1..Len(ops) : ops[n].st = "settled"

\* ------------------------------------------------------------ retry executor
BaseDelays == {defaultBaseDelay, 250, 500, 2000}

RECURSIVE Pow2(_)
Pow2(n) == IF n = 0 THEN 1 ELSE 2 * Pow2(n - 1)

\* the for-loop head of withRetry: test `attempt < maxRetries`, then either call
\* the operation or fall out of the loop to the final throw
retryLoopHead(r) ==
  IF r.attempt < r.max
    THEN [r EXCEPT !.pc = "call", !.invocations = @ + 1]
    ELSE [r EXCEPT !.pc = "thrown",
                   !.result = [st |-> "rejected", v |-> "All retry attempts failed", k |-> 0]]

\* variant: the last attempt is not recognised (attempt === maxRetries)
retryCatch_offByOne(r) ==
  LET r1 == [r EXCEPT !.fails = @ + 1] IN
  IF r.attempt = r.max
    THEN [r1 EXCEPT !.pc = "thrown",
                    !.result = [st |-> "rejected", v |-> "error", k |-> r.invocations]]
    ELSE [r1 EXCEPT !.pc = "backoff",
                    !.delays = Append(@, r.base * Pow2(r.attempt))]

\* variant: the delay grows linearly (baseDelay * (attempt + 1))
retryCatch_linear(r) ==
  LET r1 == [r EXCEPT !.fails = @ + 1] IN
  IF r.attempt = r.max - 1
    THEN [r1 EXCEPT !.pc = "thrown",
                    !.result = [st |-> "rejected", v |-> "error", k |-> r.invocations]]
    ELSE [r1 EXCEPT !.pc = "backoff",
                    !.delays = Append(@, r.base * (r.attempt + 1))]

\* the catch block of withRetry: the error of invocation k is error number k;
\* rethrow it on the last attempt, otherwise start the backoff timer
retryCatch(r) ==
  LET r1 == [r EXCEPT !.fails = @ + 1] IN
  IF r.attempt = r.max - 1
    THEN [r1 EXCEPT !.pc = "thrown",
                    !.result = [st |-> "rejected", v |-> "error", k |-> r.invocations]]
    ELSE [r1 EXCEPT !.pc = "backoff",
                    !.delays = Append(@, r.base * Pow2(r.attempt))]

\* `return await operation()`
retryReturn(r) ==
  [r EXCEPT !.pc = "returned",
            !.result = [st |-> "fulfilled", v |-> "value", k |-> r.invocations]]

InitR ==
  /\ QueueIdle
  /\ NoBatch
  /\ md = NoLookup
  /\ \E m \in 0..MaxRetryArg, b \in BaseDelays :
       retry = [pc |-> "start", max |-> m, base |-> b, attempt |-> 0,
                invocations |-> 0, fails |-> 0, delays |-> <<>>,
                result |-> [st |-> "pending", v |-> "-", k |-> 0]]

\* withRetry(operation, maxRetries, baseDelay) is called
RetryCalled ==
  /\ retry.pc = "start"
  /\ retry' = retryLoopHead(retry)
  /\ UNCHANGED <<api, px, md, fvars, qvars, bvars>>

\* the awaited operation returns or throws
RetryOperationSettles ==
  /\ retry.pc = "call"
  /\ \E ok \in BOOLEAN :
       retry' = IF ok THEN retryReturn(retry) ELSE retryCatch(retry)
  /\ UNCHANGED <<api, px, md, fvars, qvars, bvars>>

\* the backoff timer fires: attempt++ and the loop head again
RetryBackoffElapses ==
  /\ retry.pc = "backoff"
  /\ retry' = retryLoopHead([retry EXCEPT !.attempt = @ + 1])
  /\ UNCHANGED <<api, px, md, fvars, qvars, bvars>>

NextR == RetryCalled \/ RetryOperationSettles \/ RetryBackoffElapses

SpecR == InitR /\ [][NextR]_vars

\* --------------------------------------------------- retry executor: claims

\* C5: for maxAttempts >= 1, k < maxAttempts failures followed by a success
\* return the success value after exactly k+1 invocations and k backoff delays;
\* maxAttempts failures raise the error of the final attempt, unmodified, after
\* exactly maxAttempts invocations; the operation is never invoked more often.
C5_RetryOutcome ==
  /\ retry.invocations <= retry.max
  /\ retry.pc = "returned" =>
       /\ retry.fails < retry.max
       /\ retry.invocations = retry.fails + 1
       /\ Len(retry.delays) = retry.fails
       /\ retry.result = [st |-> "fulfilled", v |-> "value", k |-> retry.fails + 1]
  /\ (retry.max >= 1 /\ retry.fails = retry.max) =>
       /\ retry.pc = "thrown"
       /\ retry.invocations = retry.max
       /\ retry.result = [st |-> "rejected", v |-> "error", k |-> retry.max]
  /\ (retry.max >= 1 /\ retry.pc = "thrown") => retry.fails = retry.max

\* three attempts were allowed and all three failed
C5_Witness ==
  /\ retry.max = 3
  /\ retry.pc = "thrown"
  /\ retry.fails = 3

DefaultsExhausted ==
  /\ retry.max = maxRetries
  /\ retry.base = defaultBaseDelay
  /\ retry.pc = "thrown"

\* C6 as stated: the delay after failed attempt a is baseDelay * 2^a, and with
\* the defaults an always-failing operation waits 1s, 2s and 4s before the
\* final failure is re-raised.
C6_BackoffAsStated ==
  /\ \A i \in 1..Len(retry.delays) : retry.delays[i] = retry.base * Pow2(i - 1)
  /\ DefaultsExhausted => retry.delays = <<1000, 2000, 4000>>

\* C6 amended: the delay after failed attempt a is baseDelay * 2^a for every
\* failed attempt but the last, after which the error is re-raised at once:
\* with the defaults the delays are 1s and 2s.
C6_Backoff ==
  /\ \A i \in 1..Len(retry.delays) : retry.delays[i] = retry.base * Pow2(i - 1)
  /\ Len(retry.delays) = IF retry.pc = "thrown" /\ retry.fails > 0
                           THEN retry.fails - 1 ELSE retry.fails
  /\ DefaultsExhausted => retry.delays = <<1000, 2000>>

C6_Witness == DefaultsExhausted

\* ------------------------------------------- upstream providers and inputs
MaxWallets == 3      \* longest wallet list handed to processWalletBatch
MaxRerunWallets == 2 \* longest wallet list that is processed twice in a row
MaxBatch == 2        \* largest batchSize handed to processWalletBatch

LAMPORTS_PER_SOL == 1000000000

SOL_MINT == "So11111111111111111111111111111111111111112"

\* the wallets a list is drawn from: address A twice under different ids, an
\* address without holdings and a malformed address
WalletPool ==
  { [id |-> "w1", address |-> "A"], [id |-> "w2", address |-> "A"],
    [id |-> "w3", address |-> "B"], [id |-> "w4", address |-> "bad"] }

\* a pool of pairwise distinct addresses: C holds tokens too, one of them the
\* wrapped native mint
CommutePool ==
  { [id |-> "w1", address |-> "A"], [id |-> "w3", address |-> "B"],
    [id |-> "w5", address |-> "C"], [id |-> "w4", address |-> "bad"] }

Addresses == {w.address : w \in WalletPool \cup CommutePool}

\* new PublicKey(address) does not throw
isValidSolanaAddress(address) == address # "bad"

\* what getBalance answers (lamports) when it answers
Lamports(address) ==
  IF address = "A" THEN 2 * LAMPORTS_PER_SOL
  ELSE IF address = "C" THEN LAMPORTS_PER_SOL ELSE 0

\* what getParsedTokenAccountsByOwner answers when it answers
RawAccounts(address) ==
  IF address = "A"
    THEN << [mint |-> "M1", uiAmount |-> 100, decimals |-> 6, parsed |-> TRUE],
            [mint |-> "M2", uiAmount |-> 0, decimals |-> 9, parsed |-> TRUE],
            [mint |-> "M3", uiAmount |-> 7, decimals |-> 0, parsed |-> TRUE] >>
    ELSE IF address = "C"
    THEN << [mint |-> "M1", uiAmount |-> 5, decimals |-> 6, parsed |-> TRUE],
            [mint |-> SOL_MINT, uiAmount |-> 1, decimals |-> 9, parsed |-> TRUE] >>
    ELSE << [mint |-> "M2", uiAmount |-> 0, decimals |-> 9, parsed |-> TRUE],
            [mint |-> "M4", uiAmount |-> 3, decimals |-> 0, parsed |-> FALSE] >>

\* the token catalog (bulk endpoint) and the per-mint endpoint
Catalog ==
  [m \in {"M1", SOL_MINT} |->
     IF m = "M1" THEN [symbol |-> "TK1", name |-> "Token One", logoURI |-> "m1.png"]
                 ELSE [symbol |-> "SOL", name |-> "Wrapped SOL", logoURI |-> "sol.png"]]

PerMintOK(m) == m \in DOMAIN Catalog

\* the price feed: prices in cents, M3 is not quoted
PriceFeed == [m \in {"M1", SOL_MINT} |-> IF m = "M1" THEN 50 ELSE 15000]

RpcError(kind) == IF kind = "balance" THEN "failed to get balance" ELSE "failed to get token accounts"
InvalidKeyError == "Invalid public key input"
JupiterError == "Jupiter API error: 500"

Range(seq) == {seq[i] : i \in 1..Len(seq)}

\* ------------------------------------------------------------ cache store
\* variant: the table holds the row written last and nothing else
upsertWalletBalance_oneRow(db, row) == {row}

\* db.upsertWalletBalance: one row per wallet_address, the new row replaces it
upsertWalletBalance(db, row) ==
  {r \in db : r.wallet_address # row.wallet_address} \cup {row}

\* variant: the row is inserted, an older row of the mint stays
upsertTokenPrice_insert(db, row) == db \cup {row}

\* db.upsertTokenPrice: one row per mint, the new row replaces it
upsertTokenPrice(db, row) ==
  {r \in db : r.mint # row.mint} \cup {row}

\* variant: the table is rotated, an entry pushes the oldest of three out
insertFetchLog_rotating(log, address, operation, status, details) ==
  LET entry == [wallet_address |-> address, operation |-> operation,
                status |-> status, error_details |-> details]
  IN IF Len(log) >= 3 THEN Append(Tail(log), entry) ELSE Append(log, entry)

\* db.insertFetchLog
insertFetchLog(log, address, operation, status, details) ==
  Append(log, [wallet_address |-> address, operation |-> operation,
               status |-> status, error_details |-> details])

\* ------------------------------------------------ balance fetcher, resolver
\* getSOLBalance: lamports to SOL
solBalanceOf(address) == Lamports(address) \div LAMPORTS_PER_SOL

\* variant: accounts are kept whatever their uiAmount
tokensOf_keepsEmpty(address) ==
  LET kept == SelectSeq(RawAccounts(address), LAMBDA a : a.parsed)
  IN [i \in 1..Len(kept) |->
        [mint |-> kept[i].mint, amount |-> kept[i].uiAmount, decimals |-> kept[i].decimals]]

\* getTokenAccounts: keep the parsed accounts with a positive uiAmount (a
\* uiAmount of null compares like 0: `null > 0` is false)
tokensOf(address) ==
  LET kept == SelectSeq(RawAccounts(address), LAMBDA a : a.parsed /\ a.uiAmount > 0)
  IN [i \in 1..Len(kept) |->
        [mint |-> kept[i].mint, amount |-> kept[i].uiAmount, decimals |-> kept[i].decimals]]

Sentinel == [symbol |-> "Unknown", name |-> "Unknown Token", logoURI |-> "null"]

\* getTokenMetadata(mints) given whether the bulk catalog fetch succeeds
getTokenMetadata(mints, bulkOK) ==
  IF Len(mints) = 0 THEN [m \in {} |-> Sentinel]
  ELSE IF bulkOK
    THEN [m \in Range(mints) |-> IF m \in DOMAIN Catalog THEN Catalog[m] ELSE Sentinel]
    ELSE [m \in {x \in Range(mints) : PerMintOK(x)} |-> Catalog[m]]

\* [...new Set(seq)]: the first occurrence of every element, in order
RECURSIVE unique(_)
unique(seq) ==
  IF Len(seq) = 0 THEN <<>>
  ELSE LET rest == unique(SubSeq(seq, 1, Len(seq) - 1))
           last == seq[Len(seq)]
       IN IF last \in Range(rest) THEN rest ELSE Append(rest, last)

\* variant: the native mint is not added to the query
mintsWithSol_asGiven(mints) == unique(mints)

\* [...new Set([...mints, SOL_MINT])]
mintsWithSol(mints) == unique(Append(mints, SOL_MINT))

\* the PriceData getTokenPrices(mints) builds from the quotes of the price
\* endpoint (pricesData.data) and the metadata of the queried mints
tokenPrices(data, mints, bulkOK) ==
  LET all == mintsWithSol(mints)
      metadata == getTokenMetadata(all, bulkOK)
  IN [m \in Range(all) \cap DOMAIN data |->
        LET tokenMetadata ==
              IF m \in DOMAIN metadata THEN metadata[m]
              ELSE [symbol |-> IF m = SOL_MINT THEN "SOL" ELSE "Unknown",
                    name |-> IF m = SOL_MINT THEN "Solana" ELSE "Unknown Token",
                    logoURI |-> "undefined"]
        IN [price |-> data[m], symbol |-> tokenMetadata.symbol,
            name |-> tokenMetadata.name, image_url |-> tokenMetadata.logoURI]]

\* getTokenPrices(mints), price feed reachable: the PriceData it returns
getTokenPrices(mints, bulkOK) == tokenPrices(PriceFeed, mints, bulkOK)

\* the db.upsertTokenPrice calls of getTokenPrices, one per returned mint
RECURSIVE storePrices(_, _, _)
storePrices(db, prices, todo) ==
  IF todo = {} THEN db
  ELSE LET m == CHOOSE x \in todo : TRUE
       IN storePrices(
            upsertTokenPrice(db, [mint |-> m, symbol |-> prices[m].symbol,
                                  name |-> prices[m].name, price |-> prices[m].price,
                                  image_url |-> prices[m].image_url, source |-> "jupiter"]),
            prices, todo \ {m})

\* variant: a holding without a price is left out of the record
enhancedTokens_dropsUnpriced(tokenAccounts, metadata, prices) ==
  LET priced == SelectSeq(tokenAccounts, LAMBDA t : t.mint \in DOMAIN prices)
  IN [i \in 1..Len(priced) |->
        LET token == priced[i]
            hasMeta == token.mint \in DOMAIN metadata
        IN [mint |-> token.mint, amount |-> token.amount, decimals |-> token.decimals,
            symbol |-> IF hasMeta THEN metadata[token.mint].symbol
                       ELSE prices[token.mint].symbol,
            name |-> IF hasMeta THEN metadata[token.mint].name
                     ELSE prices[token.mint].name,
            usdValue |-> token.amount * prices[token.mint].price]]

\* variant: the value of a holding is the unit price, the amount is forgotten
enhancedTokens_unitValue(tokenAccounts, metadata, prices) ==
  [i \in 1..Len(tokenAccounts) |->
     LET token == tokenAccounts[i]
         hasMeta == token.mint \in DOMAIN metadata
         hasPrice == token.mint \in DOMAIN prices
     IN [mint |-> token.mint, amount |-> token.amount, decimals |-> token.decimals,
         symbol |-> IF hasMeta THEN metadata[token.mint].symbol
                    ELSE IF hasPrice THEN prices[token.mint].symbol ELSE "Unknown",
         name |-> IF hasMeta THEN metadata[token.mint].name
                  ELSE IF hasPrice THEN prices[token.mint].name ELSE "Unknown Token",
         usdValue |-> IF hasPrice THEN prices[token.mint].price ELSE 0]]

\* getWalletData: enhance the token accounts with metadata and prices
enhancedTokens(tokenAccounts, metadata, prices) ==
  [i \in 1..Len(tokenAccounts) |->
     LET token == tokenAccounts[i]
         hasMeta == token.mint \in DOMAIN metadata
         hasPrice == token.mint \in DOMAIN prices
     IN [mint |-> token.mint, amount |-> token.amount, decimals |-> token.decimals,
         symbol |-> IF hasMeta THEN metadata[token.mint].symbol
                    ELSE IF hasPrice THEN prices[token.mint].symbol ELSE "Unknown",
         name |-> IF hasMeta THEN metadata[token.mint].name
                  ELSE IF hasPrice THEN prices[token.mint].name ELSE "Unknown Token",
         usdValue |-> IF hasPrice THEN token.amount * prices[token.mint].price ELSE 0]]

RECURSIVE totalUsdValue(_)
totalUsdValue(tokens) ==
  IF Len(tokens) = 0 THEN 0 ELSE tokens[1].usdValue + totalUsdValue(Tail(tokens))

\* ------------------------------------------------- getWalletData pipelines
\* everything a pipeline step reads and writes, as one value
World == [q |-> QState, promise |-> promise, pl |-> pl, log |-> fetchLog,
          wdb |-> walletDb, pdb |-> priceDb, results |-> results]

SetW(W) ==
  /\ SetQ(W.q)
  /\ promise' = W.promise
  /\ pl' = W.pl
  /\ fetchLog' = W.log
  /\ walletDb' = W.wdb
  /\ priceDb' = W.pdb
  /\ results' = W.results

\* variant: the catch block counts the failure but drops its message
countPipeline_noErrorEntry(res, pipeline) ==
  IF pipeline.out = "ok"
    THEN [res EXCEPT !.successful = @ + 1]
    ELSE [res EXCEPT !.failed = @ + 1]

\* the callback of batch.map after `await this.getWalletData(...)`: count the
\* pipeline as successful, or as failed with its "{address}: {message}" entry
countPipeline(res, pipeline) ==
  IF pipeline.out = "ok"
    THEN [res EXCEPT !.successful = @ + 1]
    ELSE [res EXCEPT !.failed = @ + 1,
                     !.errors = Append(@, [address |-> pipeline.w.address,
                                           message |-> pipeline.msg])]

newPipeline(w, chunk) ==
  [w |-> w, chunk |-> chunk, pc |-> "fetch", bal |-> "pending", tok |-> "pending",
   meta |-> "-", prices |-> "-", out |-> "-", msg |-> "", total |-> 0]

\* a pipeline whose map callback has run: nothing awaits its fetches any more
finished(pipeline) ==
  [pipeline EXCEPT !.pc = "counted", !.bal = "-", !.tok = "-", !.meta = "-", !.prices = "-"]

\* variant: the catch block rethrows without storing the error row
persistError_noUpsert(W, p, msg) ==
  LET done == [finished(W.pl[p]) EXCEPT !.out = "err", !.msg = msg]
  IN [W EXCEPT !.pl[p] = done, !.results = countPipeline(@, done)]

\* variant: the error row counts the failures of the address in retry_count
persistError_countsRetries(W, p, msg) ==
  LET old == {r \in W.wdb : r.wallet_address = W.pl[p].w.address}
      n == IF old = {} THEN 0 ELSE (CHOOSE r \in old : TRUE).retry_count
      done == [finished(W.pl[p]) EXCEPT !.out = "err", !.msg = msg]
  IN [W EXCEPT
        !.wdb = upsertWalletBalance(@,
                  [wallet_address |-> W.pl[p].w.address, wallet_id |-> W.pl[p].w.id,
                   sol_balance |-> 0, tokens |-> <<>>, fetch_status |-> "error",
                   error_message |-> msg, retry_count |-> n + 1]),
        !.pl[p] = done, !.results = countPipeline(@, done)]

\* the catch block of getWalletData: store the error row, rethrow; the map
\* callback of processWalletBatch catches the error and counts the failure
persistError(W, p, msg) ==
  LET done == [finished(W.pl[p]) EXCEPT !.out = "err", !.msg = msg]
  IN [W EXCEPT
        !.wdb = upsertWalletBalance(@,
                  [wallet_address |-> W.pl[p].w.address, wallet_id |-> W.pl[p].w.id,
                   sol_balance |-> 0, tokens |-> <<>>, fetch_status |-> "error",
                   error_message |-> msg, retry_count |-> 0]),
        !.pl[p] = done, !.results = countPipeline(@, done)]

\* variant: the success row is held back (buffered) instead of being stored
persistSuccess_buffered(W, p, bulkOK) ==
  LET done == [finished(W.pl[p]) EXCEPT !.out = "ok"]
  IN [W EXCEPT !.pl[p] = done, !.results = countPipeline(@, done)]

\* the tail of getWalletData's try block: enhance, total, store the success
\* row, return; the map callback of processWalletBatch counts the success
persistSuccess(W, p, bulkOK) ==
  LET address == W.pl[p].w.address
      tokenAccounts == tokensOf(address)
      mints == [i \in 1..Len(tokenAccounts) |-> tokenAccounts[i].mint]
      metadata == getTokenMetadata(mints, bulkOK)
      prices == IF Len(mints) = 0 THEN [m \in {} |-> 0] ELSE getTokenPrices(mints, bulkOK)
      enhanced == enhancedTokens(tokenAccounts, metadata, prices)
      done == [finished(W.pl[p]) EXCEPT !.out = "ok", !.total = totalUsdValue(enhanced)]
  IN [W EXCEPT
        !.wdb = upsertWalletBalance(@,
                  [wallet_address |-> address, wallet_id |-> W.pl[p].w.id,
                   sol_balance |-> solBalanceOf(address), tokens |-> enhanced,
                   fetch_status |-> "success", error_message |-> "", retry_count |-> 0]),
        !.pl[p] = done, !.results = countPipeline(@, done)]

\* this.addToQueue(...) as called by getSOLBalance and getTokenAccounts
enqueue(W, kind, p, address) ==
  LET n == Len(W.q.ops) + 1
      S0 == [W.q EXCEPT !.ops = Append(@, newOp(kind, p, address))]
  IN [W EXCEPT !.q = addToQueue(S0, n), !.promise = Append(@, Pending)]

\* variant: the address is not parsed before the fetches are queued
startPipeline_queuesUnparsed(W, w, chunk) ==
  LET p == Len(W.pl) + 1
      W1 == [W EXCEPT !.pl = Append(@, newPipeline(w, chunk))]
  IN enqueue(enqueue(W1, "balance", p, w.address), "tokens", p, w.address)

\* getWalletData(address, id) up to its first await: getSOLBalance and
\* getTokenAccounts are both called; a malformed address makes both throw at
\* once (each logs its error) and the pipeline ends in the catch block
startPipeline(W, w, chunk) ==
  LET p == Len(W.pl) + 1
      W1 == [W EXCEPT !.pl = Append(@, newPipeline(w, chunk))]
  IN IF isValidSolanaAddress(w.address)
       THEN enqueue(enqueue(W1, "balance", p, w.address), "tokens", p, w.address)
       ELSE LET W2 == [W1 EXCEPT
                         !.log = insertFetchLog(
                                   insertFetchLog(@, w.address, "balance", "error", InvalidKeyError),
                                   w.address, "tokens", "error", InvalidKeyError),
                         !.pl[p].bal = "err", !.pl[p].tok = "err"]
            IN persistError(W2, p, InvalidKeyError)

\* batch.map(async (wallet) => ...): every pipeline of the chunk is started
RECURSIVE dispatch(_, _, _)
dispatch(W, batch, chunk) ==
  IF Len(batch) = 0 THEN W
  ELSE dispatch(startPipeline(W, Head(batch), chunk), Tail(batch), chunk)

\* processQueue continues behind the operation it awaited
resumeLoop(S, n) ==
  LET ls == {l \in S.loops : l.op = n /\ l.pc = "resume"}
  IN IF ls = {} THEN S ELSE afterOperation(S, CHOOSE l \in ls : TRUE)

\* a queued balance or token fetch settles (after its retries and fallbacks)
\* and processQueue goes on to its pacing delay or leaves its loop;
\* getSOLBalance / getTokenAccounts log the outcome, and Promise.all in
\* getWalletData either rejects on this first failure, or resolves when both
\* fetches are in; with no holdings metadata and prices resolve to {} at once
\* variant: once Promise.all has rejected, the other fetch of the pipeline is
\* cancelled: it leaves the queue without an entry in the fetch log
afterFetch_cancelsLate(W, n, ok) ==
  LET kind == W.q.ops[n].kind
      address == W.q.ops[n].val
      p == W.q.ops[n].owner
      W0 == [W EXCEPT
               !.q = resumeLoop(settleOp(@, n, ok), n),
               !.promise[n] = wrapper(ok, address)]
      W1 == [W0 EXCEPT
               !.log = insertFetchLog(@, address, kind, IF ok THEN "success" ELSE "error",
                                      IF ok THEN "" ELSE RpcError(kind))]
      W2 == IF kind = "balance"
              THEN [W1 EXCEPT !.pl[p].bal = IF ok THEN "ok" ELSE "err"]
              ELSE [W1 EXCEPT !.pl[p].tok = IF ok THEN "ok" ELSE "err"]
  IN IF W.pl[p].pc # "fetch" THEN W0
     ELSE IF ~ok THEN persistError(W2, p, RpcError(kind))
     ELSE IF W2.pl[p].bal = "ok" /\ W2.pl[p].tok = "ok"
       THEN IF Len(tokensOf(address)) = 0
              THEN persistSuccess(W2, p, TRUE)
              ELSE [W2 EXCEPT !.pl[p].pc = "resolve", !.pl[p].meta = "pending",
                              !.pl[p].prices = "pending"]
     ELSE W2

afterFetch(W, n, ok) ==
  LET kind == W.q.ops[n].kind
      address == W.q.ops[n].val
      p == W.q.ops[n].owner
      W1 == [W EXCEPT
               !.q = resumeLoop(settleOp(@, n, ok), n),
               !.promise[n] = wrapper(ok, address),
               !.log = insertFetchLog(@, address, kind, IF ok THEN "success" ELSE "error",
                                      IF ok THEN "" ELSE RpcError(kind))]
      W2 == IF kind = "balance"
              THEN [W1 EXCEPT !.pl[p].bal = IF ok THEN "ok" ELSE "err"]
              ELSE [W1 EXCEPT !.pl[p].tok = IF ok THEN "ok" ELSE "err"]
  IN IF W.pl[p].pc # "fetch" THEN W1
     ELSE IF ~ok THEN persistError(W2, p, RpcError(kind))
     ELSE IF W2.pl[p].bal = "ok" /\ W2.pl[p].tok = "ok"
       THEN IF Len(tokensOf(address)) = 0
              THEN persistSuccess(W2, p, TRUE)
              ELSE [W2 EXCEPT !.pl[p].pc = "resolve", !.pl[p].meta = "pending",
                              !.pl[p].prices = "pending"]
     ELSE W2

\* getTokenMetadata(mints) of getWalletData returns (it never throws)
afterMetadata(W, p, bulkOK) ==
  IF W.pl[p].prices = "ok"
    THEN persistSuccess([W EXCEPT !.pl[p].meta = "done"], p, bulkOK)
    ELSE [W EXCEPT !.pl[p].meta = "done"]

\* getTokenPrices(mints) of getWalletData returns or throws
afterPrices(W, p, priceOK, bulkOK) ==
  LET tokenAccounts == tokensOf(W.pl[p].w.address)
      mints == [i \in 1..Len(tokenAccounts) |-> tokenAccounts[i].mint]
      prices == getTokenPrices(mints, bulkOK)
  IN IF priceOK
       THEN LET W1 == [W EXCEPT !.pdb = storePrices(@, prices, DOMAIN prices),
                                !.log = insertFetchLog(@, "system", "prices", "success", ""),
                                !.pl[p].prices = "ok"]
            IN IF W.pl[p].meta = "done" THEN persistSuccess(W1, p, bulkOK) ELSE W1
       ELSE persistError(
              [W EXCEPT !.log = insertFetchLog(@, "system", "prices", "error", JupiterError),
                        !.pl[p].prices = "err"],
              p, JupiterError)

\* ------------------------------------------------------- batch orchestrator
NoResults == [successful |-> 0, failed |-> 0, errors |-> <<>>]

Min(a, b) == IF a < b THEN a ELSE b

\* wallets.slice(i, i + batchSize)
slice(ws, i, j) == SubSeq(ws, i + 1, Min(j, Len(ws)))

\* the pipelines of the chunk processWalletBatch is waiting for
CurrentChunk == {p \in 1..Len(pl) : p > orch.base /\ pl[p].chunk = orch.chunks}

\* variant: the chunk is over as soon as one pipeline settled (race for allSettled)
chunkSettled_any(pipelines, chunk) == \E p \in chunk : pipelines[p].pc = "counted"

\* Promise.allSettled(promises) resolves
chunkSettled(pipelines, chunk) == \A p \in chunk : pipelines[p].pc = "counted"

\* the head of the for loop: dispatch the next chunk or return the results
\* (chunks numbers the chunks that hold a wallet; an empty slice starts nothing)
ForLoopHead(o) ==
  IF o.i < Len(wallets)
    THEN /\ SetW(dispatch(World, slice(wallets, o.i, o.i + batchSize), o.chunks + 1))
         /\ orch' = [o EXCEPT !.pc = "awaitChunk",
                              !.chunks = IF batchSize = 0 THEN @ ELSE @ + 1]
    ELSE /\ SetW(World)
         /\ orch' = [o EXCEPT !.pc = "returned"]

\* no provider has been asked yet
Unasked == [rpc |-> [k \in {"balance", "tokens"} |-> [a \in Addresses |-> "?"]],
            catalog |-> "?", price |-> "?"]

InitBatchOf(maxLen, sizes) ==
  /\ QueueIdle
  /\ retry = NoRetry
  /\ md = NoLookup
  /\ \E n \in 0..maxLen : wallets \in [1..n -> WalletPool]
  /\ batchSize \in sizes
  /\ orch = [pc |-> "start", i |-> 0, chunks |-> 0, base |-> 0]
  /\ results = NoResults
  /\ pl = <<>>
  /\ prov = Unasked
  /\ walletDb = { [wallet_address |-> "B", wallet_id |-> "w3", sol_balance |-> 0,
                   tokens |-> <<>>, fetch_status |-> "pending", error_message |-> "",
                   retry_count |-> 0] }
  /\ priceDb = {}
  /\ fetchLog = <<>>
  /\ rerun = FALSE
  /\ firstRun = [wallets |-> {}, prices |-> {}]
  /\ NoFetches

InitBatch(maxLen) == InitBatchOf(maxLen, 1..MaxBatch)

InitB == InitBatch(MaxWallets)

InitB2 == InitBatch(MaxRerunWallets)

Answers(known) == IF known = "?" THEN {"ok", "fail"} ELSE {known}

\* processWalletBatch(wallets, batchSize) is called
BatchCalled ==
  /\ orch.pc = "start"
  /\ ForLoopHead(orch)
  /\ UNCHANGED <<api, px, md, fvars, pacingDelays, retry, wallets, batchSize, prov, rerun, firstRun>>

\* the balance or token fetch that holds the queue slot settles
FetchSettles ==
  /\ \E n \in Executing :
       \E ans \in Answers(prov.rpc[ops[n].kind][ops[n].val]) :
         /\ SetW(afterFetch(World, n, ans = "ok"))
         /\ prov' = [prov EXCEPT !.rpc[ops[n].kind][ops[n].val] = ans]
  /\ UNCHANGED <<api, px, md, fvars, pacingDelays, retry, wallets, batchSize, orch, rerun, firstRun>>

\* the metadata lookup of a pipeline comes back
MetadataArrives ==
  /\ \E p \in 1..Len(pl) :
       /\ pl[p].pc = "resolve"
       /\ pl[p].meta = "pending"
       /\ \E cat \in Answers(prov.catalog) :
            /\ SetW(afterMetadata(World, p, cat = "ok"))
            /\ prov' = [prov EXCEPT !.catalog = cat]
  /\ UNCHANGED <<api, px, md, fvars, pacingDelays, retry, wallets, batchSize, orch, rerun, firstRun>>

\* the price lookup of a pipeline comes back
PricesArrive ==
  /\ \E p \in 1..Len(pl) :
       /\ pl[p].pc = "resolve"
       /\ pl[p].prices = "pending"
       /\ \E pr \in Answers(prov.price), cat \in Answers(prov.catalog) :
            /\ SetW(afterPrices(World, p, pr = "ok", cat = "ok"))
            /\ prov' = [prov EXCEPT !.price = pr, !.catalog = cat]
  /\ UNCHANGED <<api, px, md, fvars, pacingDelays, retry, wallets, batchSize, orch, rerun, firstRun>>

\* Promise.allSettled resolves: wait 2000 ms if wallets remain, else loop on
ChunkSettles ==
  /\ orch.pc = "awaitChunk"
  /\ chunkSettled(pl, CurrentChunk)
  /\ IF orch.i + batchSize < Len(wallets)
       THEN /\ orch' = [orch EXCEPT !.pc = "delay"]
            /\ SetW(World)
       ELSE ForLoopHead([orch EXCEPT !.i = @ + batchSize])
  /\ UNCHANGED <<api, px, md, fvars, pacingDelays, retry, wallets, batchSize, prov, rerun, firstRun>>

\* the 2000 ms timer between chunks fires
ChunkDelayElapses ==
  /\ orch.pc = "delay"
  /\ ForLoopHead([orch EXCEPT !.i = @ + batchSize])
  /\ UNCHANGED <<api, px, md, fvars, pacingDelays, retry, wallets, batchSize, prov, rerun, firstRun>>

\* processWalletBatch is called again with the same arguments
Rerun ==
  /\ orch.pc = "returned"
  /\ ~rerun
  /\ rerun' = TRUE
  /\ firstRun' = [wallets |-> walletDb, prices |-> priceDb]
  /\ orch' = [pc |-> "start", i |-> 0, chunks |-> 0, base |-> Len(pl)]
  /\ results' = NoResults
  /\ UNCHANGED <<api, px, md, fvars, qvars, retry, wallets, batchSize, pl, prov, walletDb, priceDb, fetchLog>>

NextB ==
  \/ BatchCalled \/ FetchSettles \/ MetadataArrives \/ PricesArrive
  \/ ChunkSettles \/ ChunkDelayElapses \/ DelayElapses

\* one call of processWalletBatch
SpecB == InitB /\ [][NextB]_vars

NextB2 == NextB \/ Rerun

\* processWalletBatch called twice with the same arguments
SpecB2 == InitB2 /\ [][NextB2]_vars

\* ------------------------------------------------ batch orchestrator: claims
\* the pipeline of the j-th wallet in the current call
Pipe(j) == orch.base + j
Dispatched(j) == Pipe(j) <= Len(pl)
ChunkOf(j) == ((j - 1) \div batchSize) + 1
Returned == orch.pc = "returned"

\* what the providers' answers make of a wallet
ExpectedOK(address) ==
  /\ isValidSolanaAddress(address)
  /\ prov.rpc["balance"][address] = "ok"
  /\ prov.rpc["tokens"][address] = "ok"
  /\ (Len(tokensOf(address)) = 0 \/ prov.price = "ok")

\* C7: processWalletBatch returns with successful + failed = N and
\* errors.length = failed, every errors entry being "{address}: {message}" of a
\* wallet whose pipeline failed; every wallet is processed and gets the outcome
\* its own fetches give it, whatever happened to the other wallets.
C7_Accounting ==
  LET counted == {j \in 1..Len(wallets) : Dispatched(j) /\ pl[Pipe(j)].pc = "counted"}
      failedOnes == {j \in counted : pl[Pipe(j)].out = "err"}
      r == results
  IN /\ r.successful + r.failed = Cardinality(counted)
     /\ r.failed = Cardinality(failedOnes)
     /\ Len(r.errors) = r.failed
     /\ \A k \in 1..Len(r.errors) :
          \E j \in failedOnes :
            /\ r.errors[k] = [address |-> wallets[j].address, message |-> pl[Pipe(j)].msg]
            /\ pl[Pipe(j)].msg # ""
     /\ Returned =>
          /\ counted = 1..Len(wallets)
          /\ r.successful + r.failed = Len(wallets)
          /\ \A j \in 1..Len(wallets) :
               (pl[Pipe(j)].out = "ok") <=> ExpectedOK(wallets[j].address)

\* a wallet of the first chunk failed, a wallet of a later chunk succeeded
C7_Witness ==
  /\ Returned
  /\ \E i, j \in 1..Len(wallets) :
       /\ pl[Pipe(i)].chunk < pl[Pipe(j)].chunk
       /\ pl[Pipe(i)].out = "err"
       /\ pl[Pipe(j)].out = "ok"

\* C8: the list is cut into consecutive slices of batchSize wallets,
\* ceil(N/batchSize) chunks in all; the pipelines of a chunk are dispatched
\* together, and none of chunk k+1 starts before every one of chunk k settled.
C8_ChunkSequencing ==
  /\ Len(pl) - orch.base <= Len(wallets)
  /\ \A j \in 1..Len(wallets) :
       Dispatched(j) =>
         /\ pl[Pipe(j)].w = wallets[j]
         /\ pl[Pipe(j)].chunk = ChunkOf(j)
         /\ \A k \in 1..Len(wallets) :
              /\ ChunkOf(k) = ChunkOf(j) => Dispatched(k)
              /\ ChunkOf(k) < ChunkOf(j) => pl[Pipe(k)].pc = "counted"
  /\ Returned =>
       /\ orch.chunks = (Len(wallets) + batchSize - 1) \div batchSize
       /\ \A j \in 1..Len(wallets) : Dispatched(j)

\* three wallets in chunks of two: the second, shorter chunk is running
C8_Witness ==
  /\ Len(wallets) = 3
  /\ batchSize = 2
  /\ orch.chunks = 2
  /\ orch.pc = "awaitChunk"
  /\ pl[Pipe(1)].out # pl[Pipe(2)].out

RowsOf(address) == {r \in walletDb : r.wallet_address = address}

\* C9: after processWalletBatch returns, every input address has exactly one
\* WalletRecord, with status success or error, also when the address occurs
\* twice in the input or had a record before the run.
C9_OneRecordPerAddress ==
  Returned =>
    \A j \in 1..Len(wallets) :
      /\ Cardinality(RowsOf(wallets[j].address)) = 1
      /\ \A r \in RowsOf(wallets[j].address) : r.fetch_status \in {"success", "error"}

\* an address given twice, and the address whose record was pending before
C9_Witness ==
  /\ Returned
  /\ \E i, j, k \in 1..Len(wallets) :
       /\ i # j
       /\ wallets[i].address = wallets[j].address
       /\ wallets[k].address = "B"
       /\ pl[Pipe(k)].out = "err"

SecondRunReturned == rerun /\ Returned

\* C10 as stated: after the second of two runs on the same wallet list, with
\* the same provider answers, the WalletRecord set and the TokenPrice set equal
\* those after the first run.
C10_IdempotentAsStated ==
  SecondRunReturned => (walletDb = firstRun.wallets /\ priceDb = firstRun.prices)

\* no address is listed under two different wallet ids
OneIdPerAddress ==
  \A i, j \in 1..Len(wallets) :
    wallets[i].address = wallets[j].address => wallets[i].id = wallets[j].id

\* C10 amended: the same, for a wallet list that gives every address one
\* wallet id (an address may be repeated, with the same id).
C10_Idempotent ==
  (SecondRunReturned /\ OneIdPerAddress) =>
    (walletDb = firstRun.wallets /\ priceDb = firstRun.prices)

\* second run done; a wallet was stored with priced holdings, another with an error
C10_Witness ==
  /\ SecondRunReturned
  /\ OneIdPerAddress
  /\ priceDb # {}
  /\ \E r \in walletDb : r.fetch_status = "success" /\ Len(r.tokens) > 0
  /\ \E r \in walletDb : r.fetch_status = "error"

\* the pipelines of the current call that have settled and been counted
Counted == {p \in (orch.base + 1)..Len(pl) : pl[p].pc = "counted"}

\* the cache holds the result of pipeline p
Persisted(p) ==
  \E r \in walletDb :
    /\ r.wallet_address = pl[p].w.address
    /\ r.wallet_id = pl[p].w.id
    /\ r.fetch_status = IF pl[p].out = "ok" THEN "success" ELSE "error"
    /\ r.error_message = pl[p].msg

\* C11: at every point of a run, every wallet whose pipeline has settled and
\* been counted has its WalletRecord in the cache (of this pipeline, or of a
\* settled pipeline for the same address that stored after it): results are
\* stored per wallet, not when the chunk or the batch completes.
C11_PersistedWhenSettled ==
  /\ \A p \in Counted :
       \E q \in Counted : pl[q].w.address = pl[p].w.address /\ Persisted(q)
  /\ results.successful + results.failed = Cardinality(Counted)

\* a wallet of the running chunk is stored with its holdings while another
\* wallet of the same chunk is still being fetched and a chunk is yet to come
C11_Witness ==
  /\ orch.pc = "awaitChunk"
  /\ orch.i + batchSize < Len(wallets)
  /\ \E p \in Counted, q \in CurrentChunk :
       /\ pl[p].chunk = orch.chunks
       /\ pl[p].out = "ok"
       /\ Persisted(p)
       /\ pl[q].pc # "counted"

\* the success rows of the cache and the pipelines that returned a WalletData
SuccessRows == {r \in walletDb : r.fetch_status = "success"}
Succeeded == {p \in 1..Len(pl) : pl[p].pc = "counted" /\ pl[p].out = "ok"}

\* C24: on a successful getWalletData each stored holding's usdValue is
\* amount x price when the price feed quoted its mint and 0 otherwise,
\* totalUsdValue is the sum of the holdings' usdValue and the native balance
\* adds nothing to it (address A: 2 SOL, 100 x M1 at 50 cents and 7 x M3
\* unquoted give 5000 cents); symbol and name are those of the metadata
\* resolver whenever it has an entry for the mint.
C24_Valuation ==
  /\ \A r \in SuccessRows : \A i \in 1..Len(r.tokens) :
       LET t == r.tokens[i] IN
       /\ t.usdValue = IF t.mint \in DOMAIN PriceFeed THEN t.amount * PriceFeed[t.mint] ELSE 0
       /\ t.mint \in DOMAIN Catalog =>
            (t.symbol = Catalog[t.mint].symbol /\ t.name = Catalog[t.mint].name)
       /\ (t.mint \notin DOMAIN Catalog /\ prov.catalog = "ok") =>
            (t.symbol = "Unknown" /\ t.name = "Unknown Token")
  /\ \A p \in Succeeded :
       /\ pl[p].w.address = "A" => pl[p].total = 100 * 50
       /\ pl[p].w.address = "B" => pl[p].total = 0
       /\ \A r \in SuccessRows :
            r.wallet_address = pl[p].w.address => pl[p].total = totalUsdValue(r.tokens)

\* the pipeline of A returned: 2 SOL, M1 valued at 5000 cents, M3 valued at 0
C24_Witness ==
  \E p \in Succeeded, r \in SuccessRows :
    /\ pl[p].w.address = "A" /\ r.wallet_address = "A"
    /\ r.sol_balance = 2
    /\ pl[p].total = 5000
    /\ \E i, j \in 1..Len(r.tokens) :
         /\ r.tokens[i].mint = "M1" /\ r.tokens[i].usdValue = 5000
         /\ r.tokens[i].symbol = "TK1"
         /\ r.tokens[j].mint = "M3" /\ r.tokens[j].usdValue = 0

\* C28: zero-balance token accounts are dropped: every holding getTokenAccounts
\* returns, and so every holding of a success row, has amount > 0; an account
\* whose amount is 0 or missing, or that carries no parsed info, is left out.
C28_ZeroBalanceDropped ==
  /\ \A a \in Addresses : \A i \in 1..Len(tokensOf(a)) : tokensOf(a)[i].amount > 0
  /\ \A r \in SuccessRows : \A i \in 1..Len(r.tokens) :
       /\ r.tokens[i].amount > 0
       /\ \E j \in 1..Len(RawAccounts(r.wallet_address)) :
            LET raw == RawAccounts(r.wallet_address)[j] IN
            /\ raw.mint = r.tokens[i].mint
            /\ raw.parsed
            /\ raw.uiAmount = r.tokens[i].amount

\* A has three token accounts, one of them empty: its success row holds two;
\* B has an empty and an unparsed account: its success row holds none
C28_Witness ==
  /\ \E r \in SuccessRows :
       /\ r.wallet_address = "A"
       /\ Len(RawAccounts("A")) = 3
       /\ Len(r.tokens) = 2
  /\ \E r \in SuccessRows :
       /\ r.wallet_address = "B"
       /\ Len(RawAccounts("B")) = 2
       /\ r.tokens = <<>>

\* ------------------------------------- pipelines of pairwise distinct wallets
MaxCommuteWallets == 3 \* longest list of wallets with pairwise distinct addresses

InitDistinct(maxLen) ==
  /\ QueueIdle
  /\ retry = NoRetry
  /\ md = NoLookup
  /\ \E n \in 0..maxLen :
       wallets \in {ws \in [1..n -> CommutePool] :
                      \A i, j \in 1..n : i # j => ws[i].address # ws[j].address}
  /\ batchSize \in 1..MaxBatch
  /\ orch = [pc |-> "start", i |-> 0, chunks |-> 0, base |-> 0]
  /\ results = NoResults
  /\ pl = <<>>
  /\ prov = Unasked
  /\ walletDb = { [wallet_address |-> "B", wallet_id |-> "w3", sol_balance |-> 0,
                   tokens |-> <<>>, fetch_status |-> "pending", error_message |-> "",
                   retry_count |-> 0] }
  /\ priceDb = {}
  /\ fetchLog = <<>>
  /\ rerun = FALSE
  /\ firstRun = [wallets |-> {}, prices |-> {}]
  /\ NoFetches

InitK == InitDistinct(MaxCommuteWallets)

\* one call of processWalletBatch on wallets with pairwise distinct addresses
SpecK == InitK /\ [][NextB]_vars

mintsOf(address) == [i \in 1..Len(tokensOf(address)) |-> tokensOf(address)[i].mint]

\* the error a pipeline ends with, from the provider answers alone: the
\* balance fetch holds the queue slot before the token fetch
ExpectedError(address) ==
  IF ~isValidSolanaAddress(address) THEN InvalidKeyError
  ELSE IF prov.rpc["balance"][address] # "ok" THEN RpcError("balance")
  ELSE IF prov.rpc["tokens"][address] # "ok" THEN RpcError("tokens")
  ELSE JupiterError

\* the WalletRecord a wallet ends with, from the provider answers alone
ExpectedRow(w) ==
  IF ExpectedOK(w.address)
    THEN [wallet_address |-> w.address, wallet_id |-> w.id,
          sol_balance |-> solBalanceOf(w.address),
          tokens |-> IF Len(tokensOf(w.address)) = 0 THEN <<>>
                     ELSE enhancedTokens(tokensOf(w.address),
                            getTokenMetadata(mintsOf(w.address), prov.catalog = "ok"),
                            getTokenPrices(mintsOf(w.address), prov.catalog = "ok")),
          fetch_status |-> "success", error_message |-> "", retry_count |-> 0]
    ELSE [wallet_address |-> w.address, wallet_id |-> w.id, sol_balance |-> 0,
          tokens |-> <<>>, fetch_status |-> "error",
          error_message |-> ExpectedError(w.address), retry_count |-> 0]

\* the wallets whose getTokenPrices call returned
Quoted == {w \in Range(wallets) : ExpectedOK(w.address) /\ Len(tokensOf(w.address)) > 0}

\* the TokenPrice rows the calls of the quoted wallets write
ExpectedPrices ==
  UNION { LET prices == getTokenPrices(mintsOf(w.address), prov.catalog = "ok")
          IN { [mint |-> m, symbol |-> prices[m].symbol, name |-> prices[m].name,
                price |-> prices[m].price, image_url |-> prices[m].image_url,
                source |-> "jupiter"] : m \in DOMAIN prices }
          : w \in Quoted }

\* C25: concurrent pipelines commute: for wallets with pairwise distinct
\* addresses and provider answers that are fixed per request, the WalletRecord
\* set, the TokenPrice set and the successful / failed counts that
\* processWalletBatch ends with are determined by the wallet list and the
\* answers alone, whatever the interleaving and completion order of the
\* pipelines of a chunk.
C25_PipelinesCommute ==
  Returned =>
    /\ {r \in walletDb : r.wallet_address \in {w.address : w \in Range(wallets)}}
         = {ExpectedRow(w) : w \in Range(wallets)}
    /\ \A r \in walletDb :
         r.wallet_address \notin {w.address : w \in Range(wallets)} => r.fetch_status = "pending"
    /\ priceDb = ExpectedPrices
    /\ \A r1, r2 \in priceDb : r1.mint = r2.mint => r1 = r2
    /\ results.successful = Cardinality({w \in Range(wallets) : ExpectedOK(w.address)})
    /\ results.failed = Cardinality({w \in Range(wallets) : ~ExpectedOK(w.address)})

\* A and C were in one chunk, both resolved their prices (two "prices" log
\* entries) and so both wrote the TokenPrice rows of M1 and of the native mint
C25_Witness ==
  /\ Returned
  /\ \E i, j \in 1..Len(wallets) :
       /\ i < j
       /\ pl[Pipe(i)].chunk = pl[Pipe(j)].chunk
       /\ {wallets[i].address, wallets[j].address} = {"A", "C"}
       /\ pl[Pipe(i)].out = "ok" /\ pl[Pipe(j)].out = "ok"
       /\ Len(results.errors) = 0
       /\ Cardinality({n \in 1..Len(fetchLog) : fetchLog[n].operation = "prices"}) = 2
  /\ \E r \in priceDb : r.mint = "M1"
  /\ \E r \in priceDb : r.mint = SOL_MINT

\* ------------------------------------------------- fetch audit: claims
MaxAuditWallets == 2   \* longest wallet list of the audit runs

InitL == InitDistinct(MaxAuditWallets)

\* one call of processWalletBatch on wallets with pairwise distinct addresses;
\* the RPC providers answer or throw, and the pacing timer of the queue fires
SpecL == InitL /\ [][NextB]_vars /\ WF_vars(FetchSettles) /\ WF_vars(DelayElapses)

FetchKinds == {"balance", "tokens"}

\* the fetch log entries of one operation for one address
Entries(a, k) ==
  {i \in 1..Len(fetchLog) : fetchLog[i].wallet_address = a /\ fetchLog[i].operation = k}

\* the getWalletData calls made for one address
Calls(a) == {p \in 1..Len(pl) : pl[p].w.address = a}

\* a fetch of some getWalletData call has not written its log entry yet
Unlogged ==
  \E a \in Addresses, k \in FetchKinds :
    Cardinality(Entries(a, k)) < Cardinality(Calls(a))

\* C31: every getWalletData call appends, in the end, exactly one "balance" and
\* exactly one "tokens" entry for its address, whatever the outcome: no fetch
\* logs twice, a fetch of a valid address stays in the queue until it has run,
\* whether or not its pipeline has failed meanwhile, and every missing entry is
\* eventually written; an entry written for a pipeline that was already
\* counted changes neither the wallet rows, nor the batch counts, nor the
\* progress of the batch.
C31_OneAuditEntryPerFetch ==
  /\ [](\A a \in Addresses, k \in FetchKinds :
          Cardinality(Entries(a, k)) <= Cardinality(Calls(a)))
  /\ [](\A n \in 1..Len(ops) :
          /\ ops[n].st = "queued" => \E i \in 1..Len(requestQueue) : requestQueue[i] = n
          /\ Cardinality(Entries(ops[n].val, ops[n].kind)) =
               IF ops[n].st = "settled" THEN 1 ELSE 0)
  /\ (Unlogged ~> ~Unlogged)
  /\ [][\A p \in 1..Len(pl) :
          ( /\ pl[p].pc = "counted"
            /\ Len(fetchLog') = Len(fetchLog) + 1
            /\ fetchLog'[Len(fetchLog')].wallet_address = pl[p].w.address )
          => /\ walletDb' = walletDb
             /\ results' = results
             /\ pl' = pl
             /\ orch' = orch]_vars

\* the balance fetch of a wallet failed, its error row was stored and its chunk
\* settled; the next chunk was dispatched (its malformed address was logged at
\* once) and only then the token fetch of the first wallet wrote its entry,
\* leaving the error row and the counts as they were
C31_Witness ==
  /\ ~Unlogged
  /\ orch.pc = "returned"
  /\ \E i, j, k \in 1..Len(fetchLog) :
       /\ i < j /\ j < k
       /\ fetchLog[i].operation = "balance" /\ fetchLog[i].status = "error"
       /\ isValidSolanaAddress(fetchLog[i].wallet_address)
       /\ ~isValidSolanaAddress(fetchLog[j].wallet_address)
       /\ fetchLog[k].wallet_address = fetchLog[i].wallet_address
       /\ fetchLog[k].operation = "tokens" /\ fetchLog[k].status = "success"
       /\ \E r \in walletDb :
            /\ r.wallet_address = fetchLog[i].wallet_address
            /\ r.fetch_status = "error" /\ r.error_message = RpcError("balance")
  /\ results.failed = 2 /\ results.successful = 0

\* ------------------------------------------------ batch termination: claims
MaxTerminationWallets == 2   \* longest wallet list of the termination runs

\* processWalletBatch(wallets, batchSize) with every batchSize from 0
InitT == InitBatchOf(MaxTerminationWallets, 0..MaxBatch)

\* getTokenMetadata(mints) of some pipeline has not returned yet
MetadataAwaited ==
  \E p \in 1..Len(pl) : pl[p].pc = "resolve" /\ pl[p].meta = "pending"

\* getTokenPrices(mints) of some pipeline has not settled yet
PricesAwaited ==
  \E p \in 1..Len(pl) : pl[p].pc = "resolve" /\ pl[p].prices = "pending"

\* every per-wallet pipeline settles: the RPC providers, the catalog and the
\* price endpoint answer or throw and the pacing timer fires; the runtime
\* resolves Promise.allSettled and fires the 2000 ms timer of the batch loop
SpecT ==
  /\ InitT /\ [][NextB]_vars
  /\ WF_vars(FetchSettles) /\ WF_vars(DelayElapses)
  /\ ([]<>(~MetadataAwaited) \/ []<><<MetadataArrives>>_vars)
  /\ ([]<>(~PricesAwaited) \/ []<><<PricesArrive>>_vars)
  /\ WF_vars(ChunkSettles) /\ WF_vars(ChunkDelayElapses)

\* processWalletBatch has been called and has not returned
BatchRunning == orch.pc \notin {"start", "returned"}

\* C32: provided every per-wallet pipeline settles, a call of
\* processWalletBatch returns its result, for every wallet list and every
\* batchSize passed, batchSize = 0 with a non-empty wallet list included.
C32_BatchTerminates == BatchRunning ~> (orch.pc = "returned")

\* a call with batchSize >= 1 returns its result
TerminatesWhenPositive == (BatchRunning /\ batchSize >= 1) ~> (orch.pc = "returned")

\* batchSize = 0 on a non-empty list: the loop is waiting for an empty chunk
\* once more, no pipeline was ever started and i has not moved
StuckOnEmptyChunk ==
  /\ batchSize = 0 /\ Len(wallets) > 0
  /\ orch.pc = "delay" /\ orch.i = 0
  /\ pl = <<>> /\ results = NoResults

\* ---------------------------------- balance fetcher: retry and fallback
MaxFetchWallets == 2 \* longest wallet list when every RPC request is a step

\* everything the retry-and-fallback code of one fetch reads and writes
Fetches == [fx |-> fx, net |-> net]

\* the requests one call of the inner operation sends to a connection: one
\* getBalance, or getParsedTokenAccountsByOwner for each of the two token programs
requestsOf(kind) == IF kind = "balance" THEN {1} ELSE {1, 2}

\* a fetch that waits in the request queue
queuedFetch ==
  [r |-> [pc |-> "start", max |-> maxRetries, base |-> defaultBaseDelay, attempt |-> 0,
          invocations |-> 0, fails |-> 0, delays |-> <<>>,
          result |-> [st |-> "pending", v |-> "-", k |-> 0]],
   conn |-> "-", got |-> {}, primary |-> 0, primaryFails |-> 0, fallback |-> 0]

request(n, conn, attempt, k) == [op |-> n, conn |-> conn, attempt |-> attempt, k |-> k]

\* the try block of the inner operation: this.connection is called
callPrimary(F, n, kind) ==
  [F EXCEPT !.fx[n].conn = "primary", !.fx[n].got = {}, !.fx[n].primary = @ + 1,
            !.net = @ \cup {request(n, "primary", F.fx[n].r.attempt, k) : k \in requestsOf(kind)}]

\* the catch block of the inner operation: this.fallbackConnection is called
callFallback(F, n, kind) ==
  [F EXCEPT !.fx[n].conn = "fallback", !.fx[n].got = {}, !.fx[n].primaryFails = @ + 1,
            !.fx[n].fallback = @ + 1,
            !.net = @ \cup {request(n, "fallback", F.fx[n].r.attempt, k) : k \in requestsOf(kind)}]

\* Promise.all has rejected: nobody awaits the other request of the pair any
\* more, its answer will be dropped unseen and it is not followed further
abandon(F, q) == [F EXCEPT !.net = {x \in @ : x.op # q.op}]

\* processQueue runs the wrapper of fetch n: withRetry is entered and its first
\* attempt calls the primary connection
startRetry(F, n, kind) ==
  LET r1 == retryLoopHead(F.fx[n].r)
      F1 == [F EXCEPT !.fx[n].r = r1]
  IN IF r1.pc = "call" THEN callPrimary(F1, n, kind) ELSE F1

\* the fetches as they stand once the queue has moved to `operations`: a fetch
\* that was pushed is queued, the fetch that processQueue has just shifted starts
startFetches(F, operations) ==
  LET known == [n \in 1..Len(operations) |-> IF n <= Len(F.fx) THEN F.fx[n] ELSE queuedFetch]
      F1 == [F EXCEPT !.fx = known]
      shifted == {n \in 1..Len(operations) :
                    operations[n].st = "running" /\ known[n].r.pc = "start"}
  IN IF shifted = {} THEN F1
     ELSE LET n == CHOOSE x \in shifted : TRUE IN startRetry(F1, n, operations[n].kind)

\* the answer to request q is still awaited by the attempt that sent it
awaited(F, q) ==
  /\ F.fx[q.op].r.pc = "call"
  /\ F.fx[q.op].conn = q.conn
  /\ F.fx[q.op].r.attempt = q.attempt

\* the backoff timer of withRetry fires: attempt++ and the primary connection again
retryAgain(F, n, kind) ==
  LET r1 == retryLoopHead([F.fx[n].r EXCEPT !.attempt = @ + 1])
      F1 == [F EXCEPT !.fx[n].r = r1]
  IN IF r1.pc = "call" THEN callPrimary(F1, n, kind) ELSE F1

\* variant: an error from the primary connection goes to the catch block of
\* withRetry (the fallback connection is not tried inside the attempt)
onAnswer_noInlineFallback(F, q, ok, kind) ==
  LET n == q.op
      F0 == [F EXCEPT !.net = @ \ {q}]
      got == F.fx[n].got \cup {q.k}
  IN IF ~awaited(F, q) THEN [F |-> F0, settle |-> "-"]
     ELSE IF ok
       THEN IF got = requestsOf(kind)
              THEN [F |-> [F0 EXCEPT !.fx[n].got = got, !.fx[n].r = retryReturn(@)],
                    settle |-> "ok"]
              ELSE [F |-> [F0 EXCEPT !.fx[n].got = got], settle |-> "-"]
     ELSE LET r1 == retryCatch(F.fx[n].r)
          IN [F |-> [abandon(F0, q) EXCEPT !.fx[n].r = r1],
              settle |-> IF r1.pc = "thrown" THEN "err" ELSE "-"]

\* request q is answered. An error from the primary connection sends the
\* attempt to the fallback connection; an error from the fallback connection
\* reaches the catch block of withRetry; the last answer of the pair ends the
\* fetch. `settle` says whether, and how, the queued operation settles here.
\* variant: withRetry is outside the queued operation, so a failed attempt
\* settles the operation and the backoff runs after the queue slot is given up
onAnswer_releasesSlot(F, q, ok, kind) ==
  LET n == q.op
      F0 == [F EXCEPT !.net = @ \ {q}]
      got == F.fx[n].got \cup {q.k}
  IN IF ~awaited(F, q) THEN [F |-> F0, settle |-> "-"]
     ELSE IF ok
       THEN IF got = requestsOf(kind)
              THEN [F |-> [F0 EXCEPT !.fx[n].got = got, !.fx[n].r = retryReturn(@)],
                    settle |-> "ok"]
              ELSE [F |-> [F0 EXCEPT !.fx[n].got = got], settle |-> "-"]
     ELSE IF q.conn = "primary"
       THEN [F |-> callFallback(abandon(F0, q), n, kind), settle |-> "-"]
     ELSE [F |-> [abandon(F0, q) EXCEPT !.fx[n].r = retryCatch(F.fx[n].r)],
           settle |-> "err"]

onAnswer(F, q, ok, kind) ==
  LET n == q.op
      F0 == [F EXCEPT !.net = @ \ {q}]
      got == F.fx[n].got \cup {q.k}
  IN IF ~awaited(F, q) THEN [F |-> F0, settle |-> "-"]
     ELSE IF ok
       THEN IF got = requestsOf(kind)
              THEN [F |-> [F0 EXCEPT !.fx[n].got = got, !.fx[n].r = retryReturn(@)],
                    settle |-> "ok"]
              ELSE [F |-> [F0 EXCEPT !.fx[n].got = got], settle |-> "-"]
     ELSE IF q.conn = "primary"
       THEN [F |-> callFallback(abandon(F0, q), n, kind), settle |-> "-"]
     ELSE LET r1 == retryCatch(F.fx[n].r)
          IN [F |-> [abandon(F0, q) EXCEPT !.fx[n].r = r1],
              settle |-> IF r1.pc = "thrown" THEN "err" ELSE "-"]

\* variant: the catch block of getSOLBalance / getTokenAccounts rethrows
\* without writing the fetch log
fetchFails_noLog(W, n) ==
  LET kind == W.q.ops[n].kind
      address == W.q.ops[n].val
      p == W.q.ops[n].owner
      W1 == [W EXCEPT
               !.q = resumeLoop(settleOp(@, n, FALSE), n),
               !.promise[n] = wrapper(FALSE, address)]
  IN IF W.pl[p].pc # "fetch" THEN W1
     ELSE [W1 EXCEPT !.pl[p].pc = "caught", !.pl[p].msg = RpcError(kind),
                     !.pl[p].bal = IF kind = "balance" THEN "err" ELSE @,
                     !.pl[p].tok = IF kind = "tokens" THEN "err" ELSE @]

\* withRetry has given up: the queued fetch rejects and processQueue moves on;
\* the catch block of getSOLBalance / getTokenAccounts logs the error and
\* rethrows, Promise.all in getWalletData rejects on the first such error
fetchFails(W, n) ==
  LET kind == W.q.ops[n].kind
      address == W.q.ops[n].val
      p == W.q.ops[n].owner
      W1 == [W EXCEPT
               !.q = resumeLoop(settleOp(@, n, FALSE), n),
               !.promise[n] = wrapper(FALSE, address),
               !.log = insertFetchLog(@, address, kind, "error", RpcError(kind))]
  IN IF W.pl[p].pc # "fetch" THEN W1
     ELSE [W1 EXCEPT !.pl[p].pc = "caught", !.pl[p].msg = RpcError(kind),
                     !.pl[p].bal = IF kind = "balance" THEN "err" ELSE @,
                     !.pl[p].tok = IF kind = "tokens" THEN "err" ELSE @]

\* a fetch whose withRetry has returned or thrown: its activation is gone
endedFetch == [queuedFetch EXCEPT !.r.pc = "ended"]

\* the catch block of getWalletData: store the error row and rethrow
catchWalletData(W, p) ==
  [W EXCEPT
     !.wdb = upsertWalletBalance(@,
               [wallet_address |-> W.pl[p].w.address, wallet_id |-> W.pl[p].w.id,
                sol_balance |-> 0, tokens |-> <<>>, fetch_status |-> "error",
                error_message |-> W.pl[p].msg, retry_count |-> 0]),
     !.pl[p].pc = "rethrown"]

\* the catch block of the map callback of processWalletBatch: count the failure
catchInMap(W, p) ==
  LET done == [finished(W.pl[p]) EXCEPT !.out = "err"]
  IN [W EXCEPT !.pl[p] = done, !.results = countPipeline(@, done)]

\* ---- fetch specification: one call of processWalletBatch, every RPC request,
\* ---- backoff timer and catch block a step of its own, next to a healthCheck
\* (a wallet list that names an address twice is left to the batch specification)
InitF ==
  /\ InitBatch(MaxFetchWallets)
  /\ \A i, j \in 1..Len(wallets) : wallets[i].address = wallets[j].address => i = j

\* the fetch that processQueue has shifted in this step starts
Launch ==
  LET F == startFetches(Fetches, ops')
  IN fx' = F.fx /\ net' = F.net

\* processWalletBatch(wallets, batchSize) is called
FetchBatchCalled ==
  /\ orch.pc = "start"
  /\ ForLoopHead(orch)
  /\ Launch
  /\ UNCHANGED <<api, px, md, pacingDelays, retry, wallets, batchSize, prov, rerun, firstRun, hc>>

\* the primary or the fallback connection answers a request of a fetch
ProviderAnswers ==
  /\ \E q \in net, ok \in BOOLEAN :
       /\ q.op # 0
       /\ LET a == onAnswer(Fetches, q, ok, ops[q.op].kind)
          IN /\ fx' = a.F.fx
             /\ net' = a.F.net
             /\ SetW(IF a.settle = "ok" THEN afterFetch(World, q.op, TRUE)
                     ELSE IF a.settle = "err" THEN fetchFails(World, q.op)
                     ELSE World)
  /\ UNCHANGED <<api, px, md, pacingDelays, retry, wallets, batchSize, orch, prov, rerun, firstRun, hc>>

\* the backoff timer of a fetch fires
BackoffElapses ==
  /\ \E n \in 1..Len(fx) :
       /\ fx[n].r.pc = "backoff"
       /\ LET F == retryAgain(Fetches, n, ops[n].kind)
          IN fx' = F.fx /\ net' = F.net
  /\ UNCHANGED <<api, px, md, qvars, retry, bvars, hc>>

\* the rateLimitDelay timer fires and processQueue shifts the next fetch
PacingElapses ==
  /\ \E l \in loops :
       /\ l.pc = "delay"
       /\ SetQ(afterDelay(QState, l))
  /\ pacingDelays' = pacingDelays + 1
  /\ Launch
  /\ UNCHANGED <<api, px, md, promise, retry, bvars, hc>>

\* withRetry has returned or thrown and its activation ends
RetryEnds ==
  /\ \E n \in 1..Len(fx) :
       /\ fx[n].r.pc \in {"returned", "thrown"}
       /\ fx' = [fx EXCEPT ![n] = endedFetch]
  /\ UNCHANGED <<api, px, md, qvars, retry, bvars, net, hc>>

\* getWalletData catches the error of its fetches
WalletDataCatches ==
  /\ \E p \in 1..Len(pl) :
       /\ pl[p].pc = "caught"
       /\ SetW(catchWalletData(World, p))
  /\ UNCHANGED <<api, px, md, fvars, pacingDelays, retry, wallets, batchSize, orch, prov, rerun, firstRun>>

\* the map callback catches the error getWalletData rethrew
MapCallbackCatches ==
  /\ \E p \in 1..Len(pl) :
       /\ pl[p].pc = "rethrown"
       /\ SetW(catchInMap(World, p))
  /\ UNCHANGED <<api, px, md, fvars, pacingDelays, retry, wallets, batchSize, orch, prov, rerun, firstRun>>

\* Promise.allSettled resolves: wait 2000 ms if wallets remain, else loop on
FetchChunkSettles ==
  /\ orch.pc = "awaitChunk"
  /\ chunkSettled(pl, CurrentChunk)
  /\ IF orch.i + batchSize < Len(wallets)
       THEN /\ orch' = [orch EXCEPT !.pc = "delay"]
            /\ SetW(World)
       ELSE ForLoopHead([orch EXCEPT !.i = @ + batchSize])
  /\ Launch
  /\ UNCHANGED <<api, px, md, pacingDelays, retry, wallets, batchSize, prov, rerun, firstRun, hc>>

\* the 2000 ms timer between chunks fires
FetchChunkDelayElapses ==
  /\ orch.pc = "delay"
  /\ ForLoopHead([orch EXCEPT !.i = @ + batchSize])
  /\ Launch
  /\ UNCHANGED <<api, px, md, pacingDelays, retry, wallets, batchSize, prov, rerun, firstRun, hc>>

\* healthCheck() is called: connection.getSlot() goes out at once
HealthCheckCalled ==
  /\ hc = "off"
  /\ hc' = "getSlot"
  /\ net' = net \cup {request(0, "primary", 0, 1)}
  /\ UNCHANGED <<api, px, md, qvars, retry, bvars, fx>>

\* getSlot returns, and the price endpoint is fetched, or it throws, and
\* healthCheck returns "unhealthy"
HealthSlotAnswers ==
  /\ hc = "getSlot"
  /\ \E ok \in BOOLEAN : hc' = IF ok THEN "jupiter" ELSE "off"
  /\ net' = net \ {request(0, "primary", 0, 1)}
  /\ UNCHANGED <<api, px, md, qvars, retry, bvars, fx>>

\* the price endpoint answers and healthCheck returns "healthy", or fetch
\* throws and it returns "unhealthy"
HealthJupiterAnswers ==
  /\ hc = "jupiter"
  /\ hc' = "off"
  /\ UNCHANGED <<api, px, md, qvars, retry, bvars, fx, net>>

\* no catch block is waiting to run: promise reactions run before the next
\* timer or network event is handled
NoReactionPending ==
  /\ \A p \in 1..Len(pl) : pl[p].pc \notin {"caught", "rethrown"}
  /\ \A n \in 1..Len(fx) : fx[n].r.pc \notin {"returned", "thrown"}

NextF ==
  \/ WalletDataCatches \/ MapCallbackCatches \/ RetryEnds
  \/ NoReactionPending /\ FetchBatchCalled
  \/ NoReactionPending /\ ProviderAnswers
  \/ NoReactionPending /\ BackoffElapses
  \/ NoReactionPending /\ PacingElapses
  \/ NoReactionPending /\ MetadataArrives
  \/ NoReactionPending /\ PricesArrive
  \/ NoReactionPending /\ FetchChunkSettles
  \/ NoReactionPending /\ FetchChunkDelayElapses
  \/ NoReactionPending /\ HealthCheckCalled
  \/ NoReactionPending /\ HealthSlotAnswers
  \/ NoReactionPending /\ HealthJupiterAnswers

SpecF == InitF /\ [][NextF]_vars

\* ------------------------------------------------ balance fetcher: claims
\* withRetry of fetch n has thrown: every attempt failed on both connections
Exhausted(n) == fx[n].r.pc = "thrown"

ErrorEntry(address, kind) ==
  [wallet_address |-> address, operation |-> kind, status |-> "error",
   error_details |-> RpcError(kind)]

ErrorRow(p) ==
  [wallet_address |-> pl[p].w.address, wallet_id |-> pl[p].w.id, sol_balance |-> 0,
   tokens |-> <<>>, fetch_status |-> "error", error_message |-> pl[p].msg,
   retry_count |-> 0]

\* the entries of results.errors for the wallet of pipeline p
ErrorsOf(p) == {k \in 1..Len(results.errors) : results.errors[k].address = pl[p].w.address}

\* C12: when the balance query or the token enumeration of a well-formed
\* address has failed on every attempt on both connections, the error entry is
\* in the fetch log before the error row is stored, the error row (status error,
\* balance 0, no holdings, the message) is stored before the failure is counted,
\* and the orchestrator counts exactly one failure for the wallet.
C12_FailurePath ==
  /\ \A n \in 1..Len(fx) :
       Exhausted(n) =>
         /\ fx[n].primary = maxRetries /\ fx[n].fallback = maxRetries
         /\ ops[n].out = "err"
         /\ ErrorEntry(ops[n].val, ops[n].kind) \in Range(fetchLog)
         /\ pl[ops[n].owner].pc \in {"caught", "rethrown", "counted"}
  /\ \A n \in 1..Len(ops) :
       ops[n].out = "err" =>
         /\ ErrorEntry(ops[n].val, ops[n].kind) \in Range(fetchLog)
         /\ pl[ops[n].owner].pc \in {"caught", "rethrown", "counted"}
         /\ pl[ops[n].owner].out \in {"-", "err"}
  /\ \A p \in 1..Len(pl) :
       /\ pl[p].pc = "caught" =>
            /\ \E kind \in {"balance", "tokens"} :
                 /\ pl[p].msg = RpcError(kind)
                 /\ fetchLog[Len(fetchLog)] = ErrorEntry(pl[p].w.address, kind)
            /\ \A r \in RowsOf(pl[p].w.address) : r.fetch_status # "error"
            /\ ErrorsOf(p) = {}
       /\ pl[p].pc = "rethrown" =>
            /\ ErrorRow(p) \in walletDb
            /\ ErrorsOf(p) = {}
       /\ (pl[p].pc = "counted" /\ pl[p].out = "err") =>
            /\ RowsOf(pl[p].w.address) = {ErrorRow(p)}
            /\ Cardinality(ErrorsOf(p)) = 1
  /\ results.failed = Cardinality({p \in 1..Len(pl) : pl[p].pc = "counted" /\ pl[p].out = "err"})

\* the balance was fetched, the token enumeration failed on all attempts, and
\* processWalletBatch has returned with that one failure
C12_Witness ==
  /\ Returned
  /\ results.failed = 1
  /\ \E p \in 1..Len(pl) :
       /\ pl[p].msg = RpcError("tokens")
       /\ ErrorRow(p) \in walletDb
       /\ [wallet_address |-> pl[p].w.address, operation |-> "balance",
           status |-> "success", error_details |-> ""] \in Range(fetchLog)
       /\ ErrorEntry(pl[p].w.address, "tokens") \in Range(fetchLog)

\* the fetches whose withRetry is active or has just returned or thrown
ActiveFetches == {n \in 1..Len(fx) : fx[n].r.pc \in {"call", "backoff", "returned", "thrown"}}

\* C13: every attempt of a fetch calls the primary connection first and the
\* fallback connection if and only if that primary call failed; the attempt
\* counts as failed, and is followed by a backoff delay, only when both calls
\* failed; neither connection is called in more than maxRetries attempts, and an
\* attempt that succeeds on the fallback connection adds no backoff delay.
C13_InlineFallback ==
  \A n \in ActiveFetches :
    LET e == fx[n]
        r == e.r
        onFallback == e.conn = "fallback" /\ r.pc \in {"call", "returned"}
    IN /\ e.primary = r.invocations /\ e.primary = r.attempt + 1
       /\ e.fallback = e.primaryFails
       /\ e.fallback <= e.primary /\ e.primary <= maxRetries
       /\ r.fails = IF onFallback THEN e.fallback - 1 ELSE e.fallback
       /\ e.conn = "primary" => e.primaryFails = r.attempt
       /\ Len(r.delays) = IF r.pc = "backoff" THEN r.attempt + 1 ELSE r.attempt
       /\ \A i \in 1..Len(r.delays) : r.delays[i] = defaultBaseDelay * Pow2(i - 1)
       /\ r.pc = "returned" => Len(r.delays) = r.fails
       /\ \A q \in net :
            q.op = n => (q.conn = e.conn /\ q.attempt = r.attempt /\ r.pc = "call")

\* the token enumeration failed on both connections in its first attempt and
\* was answered by the fallback connection in its second, after one backoff
C13_Witness ==
  \E n \in ActiveFetches :
    /\ ops[n].kind = "tokens"
    /\ fx[n].r.pc = "returned"
    /\ fx[n].conn = "fallback"
    /\ fx[n].primary = 2 /\ fx[n].fallback = 2
    /\ fx[n].r.delays = <<defaultBaseDelay>>

\* the pipelines of wallets whose address is malformed
Malformed == {p \in 1..Len(pl) : ~isValidSolanaAddress(pl[p].w.address)}

InvalidKeyEntry(address, kind) ==
  [wallet_address |-> address, operation |-> kind, status |-> "error",
   error_details |-> InvalidKeyError]

\* C14: for a malformed address getSOLBalance, getTokenAccounts and
\* getWalletData raise at once: nothing is handed to the fetch queue, no
\* request goes to either connection, no backoff is waited, and the wallet is
\* counted as exactly one failure as soon as its pipeline is dispatched.
C14_ValidationImmediate ==
  /\ \A p \in Malformed :
       /\ \A n \in 1..Len(ops) : ops[n].owner # p
       /\ pl[p].pc = "counted" /\ pl[p].out = "err" /\ pl[p].msg = InvalidKeyError
       /\ InvalidKeyEntry(pl[p].w.address, "balance") \in Range(fetchLog)
       /\ InvalidKeyEntry(pl[p].w.address, "tokens") \in Range(fetchLog)
       /\ Cardinality(ErrorsOf(p)) = 1
       /\ \A k \in ErrorsOf(p) : results.errors[k].message = InvalidKeyError
  /\ Len(ops) = 2 * (Len(pl) - Cardinality(Malformed))
  /\ Len(fx) <= Len(ops)
  /\ \A q \in net : q.op = 0 \/ (q.op <= Len(ops) /\ ops[q.op].owner \notin Malformed)
  /\ \A n \in ActiveFetches : ops[n].owner \notin Malformed

\* a malformed address ahead of a wallet that is fetched: one failure counted
\* with nothing queued, then the two fetches of the other wallet
C14_Witness ==
  /\ Returned
  /\ Len(wallets) = 2
  /\ ~isValidSolanaAddress(wallets[1].address)
  /\ results.failed = 1 /\ results.successful = 1
  /\ Len(ops) = 2

\* ------------------------------------------------- partial data: claims
\* both fetches of the address succeeded and the price endpoint answered
\* (if it was asked at all)
FetchedAndQuoted(address) ==
  /\ isValidSolanaAddress(address)
  /\ prov.rpc["balance"][address] = "ok"
  /\ prov.rpc["tokens"][address] = "ok"
  /\ (Len(tokensOf(address)) = 0 \/ prov.price = "ok")

\* the metadata lookup left the mint out: the bulk fetch failed and so did the
\* lookup of this mint
MetadataMissing(mint) == prov.catalog = "fail" /\ ~PerMintOK(mint)

\* the price endpoint answered without a quote for the mint
PriceMissing(mint) == mint \notin DOMAIN PriceFeed

\* row r carries the balance and every holding of the address, the holdings
\* that lack metadata or a quote with the defaults, the others in full
DegradedRecord(r, address) ==
  LET tokenAccounts == tokensOf(address) IN
  /\ r.fetch_status = "success"
  /\ r.sol_balance = solBalanceOf(address)
  /\ Len(r.tokens) = Len(tokenAccounts)
  /\ \A i \in 1..Len(tokenAccounts) :
       LET t == r.tokens[i]
           mint == tokenAccounts[i].mint
       IN /\ t.mint = mint
          /\ t.amount = tokenAccounts[i].amount
          /\ t.decimals = tokenAccounts[i].decimals
          /\ MetadataMissing(mint) => (t.symbol = "Unknown" /\ t.name = "Unknown Token")
          /\ PriceMissing(mint) => t.usdValue = 0
          /\ ~PriceMissing(mint) => t.usdValue = t.amount * PriceFeed[mint]
          /\ mint \in DOMAIN Catalog =>
               (t.symbol = Catalog[mint].symbol /\ t.name = Catalog[mint].name)

NextCycle ==
  /\ orch.pc = "returned"
  /\ ~rerun
  /\ rerun' = TRUE
  /\ firstRun' = [wallets |-> walletDb, prices |-> priceDb]
  /\ orch' = [pc |-> "start", i |-> 0, chunks |-> 0, base |-> Len(pl)]
  /\ results' = NoResults
  /\ prov' = Unasked
  /\ UNCHANGED <<api, px, md, fvars, qvars, retry, wallets, batchSize, pl, walletDb, priceDb, fetchLog>>

NextC == NextB \/ NextCycle

SpecC == InitB2 /\ [][NextC]_vars

\* db.getWalletBalance(address) as the API hands it to a reader
getWalletBalance(db, address) == {r \in db : r.wallet_address = address}

\* C16: if a wallet was fetched successfully and a later fetch cycle for the
\* same address fails, a reader of the cache still sees the native balance and
\* the holdings of the last successful fetch, with status error and the message.
C16_LastGoodDataSurvives ==
  SecondRunReturned =>
    \A good \in firstRun.wallets :
      \A now \in getWalletBalance(walletDb, good.wallet_address) :
        (good.fetch_status = "success" /\ now.fetch_status = "error") =>
          /\ now.sol_balance = good.sol_balance
          /\ now.tokens = good.tokens
          /\ now.error_message # ""

\* ----------------------------------------------------- audit trail: claims
LogEntry(address, operation, answer) ==
  [wallet_address |-> address, operation |-> operation,
   status |-> IF answer = "ok" THEN "success" ELSE "error",
   error_details |-> IF answer = "ok" THEN ""
                     ELSE IF operation = "prices" THEN JupiterError ELSE RpcError(operation)]

\* the fetch log entries that are about neither a balance, a token nor a price fetch
MetadataEntries == {e \in Range(fetchLog) : e.operation \notin {"balance", "tokens", "prices"}}

\* C17: every provider call the engine has made (native balance, token
\* enumeration, token prices, bulk and per-mint metadata) has a FetchLogEntry
\* that records its success or failure by the time its result is returned or its
\* error is propagated or swallowed.
C17_AuditBeforePropagation ==
  /\ \A kind \in {"balance", "tokens"}, address \in Addresses :
       prov.rpc[kind][address] # "?" =>
         LogEntry(address, kind, prov.rpc[kind][address]) \in Range(fetchLog)
  /\ prov.price # "?" => LogEntry("system", "prices", prov.price) \in Range(fetchLog)
  /\ prov.catalog # "?" =>
       \E e \in MetadataEntries : e.status = IF prov.catalog = "ok" THEN "success" ELSE "error"

\* --------------------------------------------- primary provider: claims
PrimaryInFlight == {q \in net : q.conn = "primary"}

\* C18: every request to the primary connection is made from inside the fetch
\* queue operation that is executing, so at most one request to the primary
\* provider is in flight at any time, whatever engine operations run.
C18_PrimaryPaced ==
  /\ \A q \in PrimaryInFlight : q.op \in Executing
  /\ Cardinality(PrimaryInFlight) <= 1

\* ------------------------------------------------ queue slot: claims
\* the fetches whose withRetry is between its first attempt and its last: an
\* attempt is awaiting a connection, or the backoff timer is running
Retrying == {n \in 1..Len(fx) : fx[n].r.pc \in {"call", "backoff"}}

\* C30: all attempts, inline fallback calls and backoff delays of one fetch take
\* place inside one queue slot: while a fetch is retrying or backing off it is
\* the one operation the queue is executing, started once, the queue loop is
\* suspended on it and not on its pacing timer, and every request of a fetch in
\* flight is its own; and while it goes on retrying no other queued operation
\* starts and no pacing delay is taken, so its attempts are separated by the
\* backoff delays alone.
C30_RetriesHoldSlot ==
  /\ [](\A n \in Retrying :
          /\ Executing = {n}
          /\ ops[n].runs = 1
          /\ isProcessingQueue
          /\ loops = {[pc |-> "awaitOp", op |-> n]}
          /\ \A q \in net : q.op # 0 => q.op = n)
  /\ [][\A n \in Retrying :
          n \in Retrying' =>
            /\ Started' = Started
            /\ pacingDelays' = pacingDelays
            /\ fx'[n].r.attempt # fx[n].r.attempt =>
                 (fx[n].r.pc = "backoff" /\ fx'[n].r.attempt = fx[n].r.attempt + 1)]_vars

\* a fetch is in its second backoff, after two primary and two fallback calls,
\* while another fetch waits in the queue
C30_Witness ==
  \E n \in Retrying :
    /\ fx[n].r.pc = "backoff" /\ fx[n].r.attempt = 1
    /\ fx[n].primary = 2 /\ fx[n].fallback = 2
    /\ Len(requestQueue) > 0
    /\ \A m \in 1..Len(ops) : m # n /\ ops[m].st # "settled" => ops[m].st = "queued"

\* ------------------------------------------------------- metadata resolver
MaxMints == 2        \* length of the mint list that is repeated to form the argument
MaxRepeat == 6       \* how often it is repeated (one wallet, many accounts per mint)

metadataBatchSize == 10

MintIds == {"M1", "M2", "M3"}

\* the JSON list of the bulk endpoint: M1 in full, M2 without symbol, name and
\* logo, M3 not listed
AllTokens ==
  << [address |-> "M1", symbol |-> "TK1", name |-> "Token One", logoURI |-> "m1.png"],
     [address |-> "M2", symbol |-> "", name |-> "", logoURI |-> ""] >>

\* the JSON object of the per-mint endpoint
TokenPage(mint) ==
  IF mint = "M1" THEN [symbol |-> "TK1", name |-> "Token One", logoURI |-> "m1.png"]
  ELSE [symbol |-> "", name |-> "", logoURI |-> ""]

\* how an endpoint answers: response.ok, a non-OK status, or fetch / json() throws
EndpointAnswers == {"ok", "notOK", "throws"}

\* v || d
orElse(v, d) == IF v = "" THEN d ELSE v

\* { symbol: x.symbol || "Unknown", name: x.name || "Unknown Token",
\*   logoURI: x.logoURI || null }
tokenData(x) ==
  [symbol |-> orElse(x.symbol, "Unknown"), name |-> orElse(x.name, "Unknown Token"),
   logoURI |-> orElse(x.logoURI, "null")]

\* metadata[mint] = data
put(metadata, mint, data) ==
  [m \in DOMAIN metadata \cup {mint} |-> IF m = mint THEN data ELSE metadata[m]]

\* the Map built from the bulk list
RECURSIVE tokenMap(_)
tokenMap(allTokens) ==
  IF Len(allTokens) = 0 THEN [m \in {} |-> Sentinel]
  ELSE LET last == allTokens[Len(allTokens)]
           rest == tokenMap(SubSeq(allTokens, 1, Len(allTokens) - 1))
       IN put(rest, last.address, tokenData(last))

\* variant: a mint the catalog does not list gets no entry
bulkMetadata_omitsUnlisted(mints, allTokens) ==
  LET map == tokenMap(allTokens)
  IN [m \in Range(mints) \cap DOMAIN map |-> map[m]]

\* the bulk path: every requested mint from the Map, or the sentinel
bulkMetadata(mints, allTokens) ==
  LET map == tokenMap(allTokens)
  IN [m \in Range(mints) |-> IF m \in DOMAIN map THEN map[m] ELSE Sentinel]

\* variant: a lookup that failed yields the sentinel instead of null
lookupResult_defaultsOnFailure(mint, answer) ==
  [mint |-> mint,
   data |-> IF answer = "ok" THEN <<tokenData(TokenPage(mint))>> ELSE <<Sentinel>>]

\* the callback of batch.map: {mint, data} when the lookup answered, {mint,
\* data: null} for a non-OK status or an exception (null is <<>>, data is <<d>>)
lookupResult(mint, answer) ==
  [mint |-> mint,
   data |-> IF answer = "ok" THEN <<tokenData(TokenPage(mint))>> ELSE <<>>]

\* results.forEach: store the data of every result that has some
RECURSIVE storeResults(_, _)
storeResults(metadata, lookupResults) ==
  IF Len(lookupResults) = 0 THEN metadata
  ELSE LET result == Head(lookupResults)
           stored == IF result.data # <<>> THEN put(metadata, result.mint, result.data[1])
                     ELSE metadata
       IN storeResults(stored, Tail(lookupResults))

\* one chunk of the fallback: look every mint up, await them all, store
lookupBatch(metadata, batch, lookup) ==
  storeResults(metadata, [i \in 1..Len(batch) |-> lookupResult(batch[i], lookup[batch[i]])])

\* the chunk of the fallback loop at offset i
chunkAt(m) == slice(m.mints, m.i, m.i + metadataBatchSize)

\* batch.map(async (mint) => fetch(...)): the lookups of the chunk go out
sendLookups(m) == [m EXCEPT !.pc = "lookups", !.lookups = @ + Len(chunkAt(m))]

RECURSIVE Repeat(_, _)
Repeat(seq, n) == IF n = 0 THEN <<>> ELSE seq \o Repeat(seq, n - 1)

\* ---- resolver specification: getTokenMetadata on every small mint list, the
\* ---- bulk endpoint and the lookup of each mint answering in every way
InitM ==
  /\ QueueIdle
  /\ retry = NoRetry
  /\ NoBatch
  /\ \E n \in 0..MaxMints :
       \E base \in [1..n -> MintIds], times \in {1, MaxRepeat}, bulk \in EndpointAnswers,
          lookup \in [MintIds -> EndpointAnswers] :
         md = [pc |-> "start", mints |-> Repeat(base, times), bulk |-> bulk,
               lookup |-> lookup, i |-> 0, metadata |-> <<>>, lookups |-> 0]

\* getTokenMetadata(mints) is called: {} for no mints, else the bulk fetch
MetadataCalled ==
  /\ md.pc = "start"
  /\ md' = IF Len(md.mints) = 0 THEN [md EXCEPT !.pc = "returned"]
           ELSE [md EXCEPT !.pc = "bulk"]
  /\ UNCHANGED <<api, px, qvars, retry, bvars, fvars>>

\* the bulk endpoint answers: return the bulk result, or fall back to lookups
BulkAnswers ==
  /\ md.pc = "bulk"
  /\ md' = IF md.bulk = "ok"
             THEN [md EXCEPT !.pc = "returned", !.metadata = bulkMetadata(md.mints, AllTokens)]
             ELSE sendLookups(md)
  /\ UNCHANGED <<api, px, qvars, retry, bvars, fvars>>

\* Promise.allSettled of the chunk resolves: store, then pause 100 ms before
\* the next chunk or return
LookupsSettle ==
  /\ md.pc = "lookups"
  /\ LET stored == [md EXCEPT !.metadata = lookupBatch(@, chunkAt(md), md.lookup)]
     IN md' = IF md.i + metadataBatchSize < Len(md.mints)
                THEN [stored EXCEPT !.pc = "pause"]
                ELSE [stored EXCEPT !.pc = "returned"]
  /\ UNCHANGED <<api, px, qvars, retry, bvars, fvars>>

\* the pause is over: the next chunk
PauseElapses ==
  /\ md.pc = "pause"
  /\ md' = sendLookups([md EXCEPT !.i = @ + metadataBatchSize])
  /\ UNCHANGED <<api, px, qvars, retry, bvars, fvars>>

NextM == MetadataCalled \/ BulkAnswers \/ LookupsSettle \/ PauseElapses

SpecM == InitM /\ [][NextM]_vars

\* ------------------------------------------------ metadata resolver: claims
MetadataReturned == md.pc = "returned"

\* C19: when the bulk fetch fails (exception or non-OK response)
\* getTokenMetadata does not raise and returns a map whose keys are exactly the
\* requested mints whose own lookup succeeded, each with the data of its own
\* lookup whatever happened to the lookups of the other mints.
C19_PartialMetadata ==
  /\ md.pc \in {"start", "bulk", "lookups", "pause", "returned"}
  /\ (MetadataReturned /\ md.bulk # "ok") =>
       /\ DOMAIN md.metadata = {m \in Range(md.mints) : md.lookup[m] = "ok"}
       /\ \A m \in DOMAIN md.metadata : md.metadata[m] = tokenData(TokenPage(m))
       /\ md.lookups = Len(md.mints)

\* the bulk fetch failed, the lookup of M1 succeeded and that of another
\* requested mint failed: M1 alone is returned
C19_Witness ==
  /\ MetadataReturned
  /\ md.bulk = "throws"
  /\ Range(md.mints) = {"M1", "M3"}
  /\ md.lookup["M3"] = "notOK"
  /\ DOMAIN md.metadata = {"M1"}
  /\ md.metadata["M1"].symbol = "TK1"

\* C20: when the bulk fetch succeeds getTokenMetadata returns an entry for
\* every requested mint, the catalog's when the mint is listed and the sentinel
\* ("Unknown", "Unknown Token", no image) otherwise, without any per-mint lookup.
C20_BulkTotal ==
  (MetadataReturned /\ md.bulk = "ok") =>
    /\ DOMAIN md.metadata = Range(md.mints)
    /\ \A m \in Range(md.mints) :
         /\ m = "M1" => md.metadata[m] = [symbol |-> "TK1", name |-> "Token One",
                                          logoURI |-> "m1.png"]
         /\ (\A k \in 1..Len(AllTokens) : AllTokens[k].address # m) =>
              md.metadata[m] = Sentinel
         /\ md.metadata[m].symbol # "" /\ md.metadata[m].name # ""
    /\ md.lookups = 0

\* a listed and an unlisted mint were asked for and the bulk fetch succeeded
C20_Witness ==
  /\ MetadataReturned
  /\ md.bulk = "ok"
  /\ Range(md.mints) = {"M1", "M3"}
  /\ md.metadata["M3"] = Sentinel
  /\ md.metadata["M1"].symbol = "TK1"

\* ------------------------------------------------------------ price resolver
MaxPriceCalls == 2   \* calls of getSOLPrice / getTokenPrices in the resolver specification

defaultSolPrice == 15000  \* `cached?.price || 150`, in cents

\* what the price endpoint may quote (pricesData.data), in cents: the usual
\* feed, a later feed with other prices, the native mint quoted without a
\* price (`info.price || "0"`), and a feed that does not quote the native mint
LaterFeed == [m \in {"M1", SOL_MINT} |-> IF m = "M1" THEN 55 ELSE 14200]

Quotes ==
  { PriceFeed,
    LaterFeed,
    [m \in {SOL_MINT} |-> 0],
    [m \in {"M1"} |-> 50] }

\* the mint lists getTokenPrices is called with
PriceArgs == { <<>>, <<"M1">>, <<"M1", "M1">>, <<"M3", SOL_MINT>> }

newCall(fn, mints, ids) ==
  [fn |-> fn, mints |-> mints, ids |-> ids, pc |-> "fetch", answer |-> "-",
   seen |-> {}, price |-> 0, prices |-> <<>>, wrote |-> {}, seq |-> 0]

\* parseFloat(data.data?.[SOL_MINT]?.price || "0")
solPriceOf(data) == IF SOL_MINT \in DOMAIN data THEN data[SOL_MINT] ELSE 0

\* db.getAllTokenPrices().find(p => p.mint === SOL_MINT)
cachedSol(db) == {r \in db : r.mint = SOL_MINT}

\* variant: the catch block always answers with the default
solPriceFallback_ignoresCache(db) == defaultSolPrice

\* the catch block of getSOLPrice: cached?.price || 150
solPriceFallback(db) ==
  LET cached == cachedSol(db)
  IN IF cached # {} /\ (CHOOSE r \in cached : TRUE).price # 0
       THEN (CHOOSE r \in cached : TRUE).price
       ELSE defaultSolPrice

\* the row getSOLPrice stores
solRow(solPrice) ==
  [mint |-> SOL_MINT, symbol |-> "SOL", name |-> "Solana", price |-> solPrice,
   image_url |-> "logo.png", source |-> "jupiter"]

\* the rows getTokenPrices stores for the PriceData it returns
priceRows(prices) ==
  { [mint |-> m, symbol |-> prices[m].symbol, name |-> prices[m].name,
     price |-> prices[m].price, image_url |-> prices[m].image_url,
     source |-> "jupiter"] : m \in DOMAIN prices }

\* number of calls that have completed
Completed == Cardinality({c \in 1..Len(px) : px[c].pc # "fetch"})

InitP ==
  /\ QueueIdle
  /\ retry = NoRetry
  /\ NoBatch
  /\ md = NoLookup

\* getSOLPrice() is called: the price endpoint is asked for the native mint
SolPriceCalled ==
  /\ Len(px) < MaxPriceCalls
  /\ px' = Append(px, newCall("getSOLPrice", <<>>, <<SOL_MINT>>))
  /\ UNCHANGED <<api, md, qvars, retry, fvars, wallets, batchSize, orch, results, pl, prov,
                 walletDb, priceDb, fetchLog, rerun, firstRun>>

\* the request of getSOLPrice fails (network error or non-OK status): the catch
\* block answers from the cache; or it is answered: a positive price is stored
SolPriceAnswers ==
  /\ \E c \in 1..Len(px) :
       /\ px[c].fn = "getSOLPrice"
       /\ px[c].pc = "fetch"
       /\ \/ /\ px' = [px EXCEPT ![c] = [@ EXCEPT !.pc = "returned", !.answer = "fail",
                                                  !.seen = cachedSol(priceDb),
                                                  !.price = solPriceFallback(priceDb),
                                                  !.seq = Completed + 1]]
             /\ priceDb' = priceDb
          \/ \E data \in Quotes :
               LET solPrice == solPriceOf(data) IN
               /\ priceDb' = IF solPrice > 0 THEN upsertTokenPrice(priceDb, solRow(solPrice))
                             ELSE priceDb
               /\ px' = [px EXCEPT ![c] = [@ EXCEPT !.pc = "returned", !.answer = "ok",
                                                    !.price = solPrice,
                                                    !.wrote = IF solPrice > 0 THEN {solRow(solPrice)}
                                                              ELSE {},
                                                    !.seq = Completed + 1]]
  /\ UNCHANGED <<api, md, qvars, retry, fvars, wallets, batchSize, orch, results, pl, prov,
                 walletDb, fetchLog, rerun, firstRun>>

\* getTokenPrices(mints) is called: {} at once for no mints, else the price
\* endpoint is asked for the mints and the native mint
TokenPricesCalled ==
  /\ Len(px) < MaxPriceCalls
  /\ \E mints \in PriceArgs :
       px' = Append(px,
               IF Len(mints) = 0
                 THEN [newCall("getTokenPrices", mints, <<>>) EXCEPT
                         !.pc = "returned", !.seq = Completed + 1]
                 ELSE newCall("getTokenPrices", mints, mintsWithSol(mints)))
  /\ UNCHANGED <<api, md, qvars, retry, fvars, wallets, batchSize, orch, results, pl, prov,
                 walletDb, priceDb, fetchLog, rerun, firstRun>>

\* Promise.all of the price request and getTokenMetadata settles: a failed
\* request is logged and rethrown, an answered one is stored, logged, returned
TokenPricesAnswer ==
  /\ \E c \in 1..Len(px) :
       /\ px[c].fn = "getTokenPrices"
       /\ px[c].pc = "fetch"
       /\ \/ /\ px' = [px EXCEPT ![c] = [@ EXCEPT !.pc = "thrown", !.answer = "fail",
                                                  !.seq = Completed + 1]]
             /\ priceDb' = priceDb
             /\ fetchLog' = insertFetchLog(fetchLog, "system", "prices", "error", JupiterError)
          \/ \E data \in Quotes, bulkOK \in BOOLEAN :
               LET prices == tokenPrices(data, px[c].mints, bulkOK) IN
               /\ priceDb' = storePrices(priceDb, prices, DOMAIN prices)
               /\ fetchLog' = insertFetchLog(fetchLog, "system", "prices", "success", "")
               /\ px' = [px EXCEPT ![c] = [@ EXCEPT !.pc = "returned", !.answer = "ok",
                                                    !.prices = prices,
                                                    !.wrote = priceRows(prices),
                                                    !.seq = Completed + 1]]
  /\ UNCHANGED <<api, md, qvars, retry, fvars, wallets, batchSize, orch, results, pl, prov,
                 walletDb, rerun, firstRun>>

NextP == SolPriceCalled \/ SolPriceAnswers \/ TokenPricesCalled \/ TokenPricesAnswer

\* calls of the price resolver, overlapping in any way
SpecP == InitP /\ [][NextP]_vars

\* ---------------------------------------------------- price resolver: claims
SolCalls == {c \in 1..Len(px) : px[c].fn = "getSOLPrice"}
TokenCalls == {c \in 1..Len(px) : px[c].fn = "getTokenPrices"}

\* the price-provider call of getSOLPrice call c failed and the call returned
FailedOver(c) == c \in SolCalls /\ px[c].pc = "returned" /\ px[c].answer = "fail"

C22_NativeAlwaysQueried ==
  \A c \in TokenCalls : SOL_MINT \in Range(px[c].ids)

\* C22: every call of getTokenPrices with a non-empty list asks the price
\* endpoint for its mints and the native mint, each id once; a call with the
\* empty list returns {} without asking the endpoint, so it refreshes nothing.
C22_NativeQueriedWhenNonEmpty ==
  \A c \in TokenCalls :
    /\ Len(px[c].mints) > 0 =>
         /\ Range(px[c].ids) = Range(px[c].mints) \cup {SOL_MINT}
         /\ Cardinality({i \in 1..Len(px[c].ids) : px[c].ids[i] = SOL_MINT}) = 1
         /\ Len(px[c].ids) = Cardinality(Range(px[c].ids))
    /\ Len(px[c].mints) = 0 =>
         /\ px[c].ids = <<>>
         /\ px[c].pc = "returned"
         /\ DOMAIN px[c].prices = {}
         /\ px[c].wrote = {}

\* a call for M1 alone was answered and stored the native price; a call with
\* the empty list has returned
C22_Witness ==
  /\ \E c \in TokenCalls :
       /\ SOL_MINT \notin Range(px[c].mints)
       /\ px[c].answer = "ok"
       /\ \E r \in px[c].wrote : r.mint = SOL_MINT
  /\ \E c \in TokenCalls : Len(px[c].mints) = 0 /\ px[c].pc = "returned"

\* the calls that wrote a row for the mint, and the one that completed last
Writers(m) == {c \in 1..Len(px) : \E r \in px[c].wrote : r.mint = m}
LastWriter(m) == CHOOSE c \in Writers(m) : \A d \in Writers(m) : px[d].seq <= px[c].seq

\* C23: when getTokenPrices returns, every mint of the returned map has a
\* TokenPrice row with the returned price, symbol and name and source
\* "jupiter"; after any sequence of getTokenPrices and getSOLPrice calls the
\* cache holds at most one row per mint, the one written last for that mint.
C23_PricePersistence ==
  /\ [](\A m \in {"M1", "M2", "M3", SOL_MINT} :
          {r \in priceDb : r.mint = m} =
            IF Writers(m) = {} THEN {}
            ELSE {r \in px[LastWriter(m)].wrote : r.mint = m})
  /\ [](\A r1, r2 \in priceDb : r1.mint = r2.mint => r1 = r2)
  /\ [][\A c \in TokenCalls :
          (px[c].pc = "fetch" /\ px'[c].pc = "returned") =>
            \A m \in DOMAIN px'[c].prices :
              \E r \in priceDb' :
                /\ r.mint = m
                /\ r.price = px'[c].prices[m].price
                /\ r.symbol = px'[c].prices[m].symbol
                /\ r.name = px'[c].prices[m].name
                /\ r.source = "jupiter"]_vars

\* getSOLPrice stored the native mint at 150 dollars, then a getTokenPrices
\* call for M1 returned with M1 at 55 cents and the native mint at 142 dollars:
\* the cache holds the rows of the later call
C23_Witness ==
  \E c \in SolCalls, d \in TokenCalls :
    /\ px[c].pc = "returned" /\ px[d].pc = "returned"
    /\ px[c].seq < px[d].seq
    /\ \E r \in px[c].wrote : r.mint = SOL_MINT /\ r.price = 15000
    /\ DOMAIN px[d].prices = {"M1", SOL_MINT}
    /\ px[d].prices["M1"].price = 55
    /\ px[d].prices[SOL_MINT].price = 14200
    /\ \E r \in priceDb : r.mint = "M1" /\ r.price = 55 /\ r.source = "jupiter"
    /\ \A r \in priceDb : r.mint = SOL_MINT => r.price = 14200

\* ------------------------------------------------------------- API routes
MaxApiWallets == 2   \* longest wallet list of the fetch cycle that runs beside the API
MaxRequests == 1     \* API requests received while the fetch cycle runs

\* the GET routes of api.ts: each reads through query methods of the cache
\* store (status and health also call healthCheck) and answers
GetRoutes ==
  { "/portfolio/overview", "/portfolio/status", "/portfolio/metrics", "/portfolio/pnl",
    "/portfolio/pnl/timeframe/:period", "/wallets/balance/:address",
    "/wallets/history/:address", "/wallets/pnl/:address", "/wallets/pnl/:address/:period",
    "/tokens/prices", "/tokens/pnl", "/tokens/aggregated", "/wallets/all",
    "/tokens/holders/:mint", "/admin/logs", "/health" }

\* the wallet list of the fetch cycle: A and a malformed address in turn
ApiWallets(n) ==
  [i \in 1..n |-> IF i % 2 = 1 THEN [id |-> "w1", address |-> "A"]
                  ELSE [id |-> "w4", address |-> "bad"]]

\* the cache as an earlier fetch cycle left it: A fetched and valued
CachedWallets ==
  { [wallet_address |-> "A", wallet_id |-> "w1", sol_balance |-> solBalanceOf("A"),
     tokens |-> enhancedTokens(tokensOf("A"), getTokenMetadata(mintsOf("A"), TRUE),
                               getTokenPrices(mintsOf("A"), TRUE)),
     fetch_status |-> "success", error_message |-> "", retry_count |-> 0] }

CachedPrices == priceRows(getTokenPrices(mintsOf("A"), TRUE))

EarlierLog ==
  insertFetchLog(
    insertFetchLog(
      insertFetchLog(<<>>, "A", "balance", "success", ""),
      "A", "tokens", "success", ""),
    "system", "prices", "success", "")

\* db.getStaleTokenPrices(30): the clock is not part of the state, so any
\* cached row may be older than 30 minutes
StaleLists(db) ==
  {l \in {<<>>, <<"M1">>, <<SOL_MINT>>, <<"M1", SOL_MINT>>} :
     Range(l) \subseteq {r.mint : r \in db}}

\* variant: the route marks every WalletRecord for a new fetch
adminRefresh_refetches(db) == {[r EXCEPT !.fetch_status = "pending"] : r \in db}

\* POST /admin/refresh: answers with a success message, nothing else
adminRefresh(db) == db

\* POST /admin/snapshot: a manual snapshot for every wallet fetched successfully
manualSnapshots(db) ==
  { [wallet_address |-> r.wallet_address, sol_balance |-> r.sol_balance,
     tokens |-> r.tokens, total_usd_value |-> totalUsdValue(r.tokens),
     snapshot_type |-> "manual"] : r \in {x \in db : x.fetch_status = "success"} }

served(a, route) == [a EXCEPT !.n = @ + 1, !.last = route]

InitA ==
  /\ QueueIdle
  /\ retry = NoRetry
  /\ md = NoLookup
  /\ \E n \in 0..MaxApiWallets : wallets = ApiWallets(n)
  /\ batchSize \in 1..MaxBatch
  /\ orch = [pc |-> "start", i |-> 0, chunks |-> 0, base |-> 0]
  /\ results = NoResults
  /\ pl = <<>>
  /\ prov = Unasked
  /\ walletDb = CachedWallets
  /\ priceDb = CachedPrices
  /\ fetchLog = EarlierLog
  /\ rerun = FALSE
  /\ firstRun = [wallets |-> {}, prices |-> {}]
  /\ NoFetches

\* a GET route, or POST /wallets/balances which only reads as well
ReadRequest ==
  /\ api.n < MaxRequests
  /\ \E route \in GetRoutes \cup {"/wallets/balances"} :
       api' = served(api, IF route \in GetRoutes THEN "GET" ELSE "POST /wallets/balances")
  /\ UNCHANGED <<px, md, qvars, retry, fvars, bvars>>

\* POST /admin/refresh
AdminRefreshRequest ==
  /\ api.n < MaxRequests
  /\ api' = served(api, "POST /admin/refresh")
  /\ walletDb' = adminRefresh(walletDb)
  /\ UNCHANGED <<px, md, qvars, retry, fvars, wallets, batchSize, orch, results, pl, prov,
                 priceDb, fetchLog, rerun, firstRun>>

\* POST /admin/snapshot
SnapshotRequest ==
  /\ api.n < MaxRequests
  /\ api' = [served(api, "POST /admin/snapshot") EXCEPT
               !.snapshots = Append(@, manualSnapshots(walletDb))]
  /\ UNCHANGED <<px, md, qvars, retry, fvars, bvars>>

\* POST /tokens/prices/refresh: refreshStaleTokenPrices returns at once when
\* nothing is stale, else it calls getTokenPrices(mints) and awaits it
PriceRefreshRequest ==
  /\ api.n < MaxRequests
  /\ \E mints \in StaleLists(priceDb) :
       api' = IF Len(mints) = 0
                THEN served(api, "POST /tokens/prices/refresh")
                ELSE [served(api, "POST /tokens/prices/refresh") EXCEPT
                        !.refresh = @ \cup {[id |-> api.n + 1, mints |-> mints]}]
  /\ UNCHANGED <<px, md, qvars, retry, fvars, bvars>>

\* getTokenPrices of a pending refresh settles: stored and logged, or logged
\* and thrown to refreshStaleTokenPrices, which swallows the error
PriceRefreshAnswers ==
  /\ \E r \in api.refresh :
       /\ api' = [api EXCEPT !.refresh = @ \ {r}, !.last = "POST /tokens/prices/refresh"]
       /\ \/ /\ priceDb' = priceDb
             /\ fetchLog' = insertFetchLog(fetchLog, "system", "prices", "error", JupiterError)
          \/ \E data \in {PriceFeed, LaterFeed}, bulkOK \in BOOLEAN :
               LET prices == tokenPrices(data, r.mints, bulkOK) IN
               /\ priceDb' = storePrices(priceDb, prices, DOMAIN prices)
               /\ fetchLog' = insertFetchLog(fetchLog, "system", "prices", "success", "")
  /\ UNCHANGED <<px, md, qvars, retry, fvars, wallets, batchSize, orch, results, pl, prov,
                 walletDb, rerun, firstRun>>

NextA ==
  \/ NextB
  \/ ReadRequest \/ AdminRefreshRequest \/ SnapshotRequest
  \/ PriceRefreshRequest \/ PriceRefreshAnswers

\* API requests served while a fetch cycle runs over a cache that is filled
SpecA == InitA /\ [][NextA]_vars

\* ------------------------------------------------------- API routes: claims
\* C26: the fetch log is append-only: every step of the engine (balance and
\* token fetches, price resolution, getWalletData, processWalletBatch, the
\* stale-price refresh) and of every API handler leaves the entries there are
\* in place and at most appends to them, so their number never decreases, also
\* when a fetch cycle overwrites a WalletRecord.
C26_LogAppendOnly ==
  [][/\ Len(fetchLog') >= Len(fetchLog)
     /\ SubSeq(fetchLog', 1, Len(fetchLog)) = fetchLog]_vars

\* the fetch cycle replaced the success record of A by an error record, the
\* refresh route logged a price fetch, and the earlier entries are all there
C26_Witness ==
  /\ \E r \in walletDb : r.wallet_address = "A" /\ r.fetch_status = "error"
  /\ api.last = "POST /tokens/prices/refresh" /\ api.refresh = {}
  /\ Len(fetchLog) > Len(EarlierLog) + 2
  /\ SubSeq(fetchLog, 1, Len(EarlierLog)) = EarlierLog
  /\ \E n \in Len(EarlierLog) + 1..Len(fetchLog) :
       fetchLog[n].wallet_address = "A" /\ fetchLog[n].status = "error"

\* C27: a step of an API handler never writes a WalletRecord and never enters
\* the balance fetcher or the batch orchestrator; it changes a TokenPrice only
\* when it belongs to POST /tokens/prices/refresh; a GET handler leaves
\* WalletRecords, TokenPrices, snapshots and log entries as they are.
C27_PresentationFrame ==
  [][api' # api =>
       /\ walletDb' = walletDb
       /\ UNCHANGED <<qvars, retry, fvars, orch, results, pl, prov>>
       /\ priceDb' # priceDb => (api'.last = "POST /tokens/prices/refresh" /\ api'.n = api.n)
       /\ (api'.last = "GET" /\ api'.n > api.n) =>
            (/\ UNCHANGED <<priceDb, fetchLog>>
             /\ api'.snapshots = api.snapshots
             /\ api'.refresh = api.refresh)]_vars

\* the refresh route has changed the price of M1 while the WalletRecord of A is
\* the one the earlier cycle stored
C27_Witness ==
  /\ api.last = "POST /tokens/prices/refresh"
  /\ api.n = 1 /\ api.refresh = {}
  /\ \E r \in priceDb : r.mint = "M1" /\ r.price = LaterFeed["M1"]
  /\ walletDb = CachedWallets
  /\ orch.pc = "start"

====
